---------------------------- MODULE Spec2Model ----------------------------
(***************************************************************************)
(* Model of the trust/verification core of the Walmarket oracle            *)
(* (src/contracts/oracle): canonical hashing, report digest, signing and   *)
(* verification, TEE proof assembly.                                       *)
(*                                                                         *)
(* Representation of Python values                                         *)
(*   - A character of a str and a byte of a bytes object are both a tuple  *)
(*     of integers.  An ordinary character or byte is <<code>> (its ASCII  *)
(*     code or byte value).  str and bytes are sequences of such symbols,  *)
(*     so str.encode() on ASCII text keeps the representation.             *)
(*   - SHA-256 is idealised as an injective function with a 32-byte        *)
(*     result: the first byte of a digest is the symbolic byte             *)
(*     <<SymByte, preimage>>, the other 31 bytes are zero.  The            *)
(*     hexadecimal rendering of a symbolic byte is the pair of symbolic    *)
(*     hex digits <<SymHi, preimage>>, <<SymLo>>.                          *)
(*   - ECDSA is idealised symbolically: a DER signature is the byte string *)
(*     <<0x30, key, k>> \o digest, valid under public key `key` for        *)
(*     `digest` and for nothing else.                                      *)
(*   - A JSON value is a record [t, s, n, items]: t is the Python type,    *)
(*     s the text of a str, n the number (floats in hundredths), items the *)
(*     entries [k, v] of a dict (in insertion order) or list (k empty).    *)
(***************************************************************************)
EXTENDS Integers, Sequences, FiniteSets, TLC

VARIABLES gens, ret, pair, run, walrus, tempfiles

vars == <<gens, ret, pair, run, walrus, tempfiles>>

-----------------------------------------------------------------------------
(* Characters, bytes, text                                                 *)

\* Printable ASCII, codes 32..126 ("bq" stands in for the backquote, code 96).
Ascii ==
  <<" ", "!", "\"", "#", "$", "%", "&", "'", "(", ")", "*", "+", ",", "-", ".", "/",
    "0", "1", "2", "3", "4", "5", "6", "7", "8", "9", ":", ";", "<", "=", ">", "?",
    "@", "A", "B", "C", "D", "E", "F", "G", "H", "I", "J", "K", "L", "M", "N", "O",
    "P", "Q", "R", "S", "T", "U", "V", "W", "X", "Y", "Z", "[", "\\", "]", "^", "_",
    "bq", "a", "b", "c", "d", "e", "f", "g", "h", "i", "j", "k", "l", "m", "n", "o",
    "p", "q", "r", "s", "t", "u", "v", "w", "x", "y", "z", "{", "|", "}", "~">>

OrdTable == [c \in {Ascii[i] : i \in DOMAIN Ascii} |->
               31 + (CHOOSE i \in DOMAIN Ascii : Ascii[i] = c)]

Ord(c) == OrdTable[c]

\* A Python string literal, written as a tuple of one-character strings.
S(lit) == [i \in DOMAIN lit |-> <<Ord(lit[i])>>]

SymByte == 256
SymHi == 257
SymLo == 258

IsSym(b) == b[1] >= SymByte

Repeat(x, n) == [i \in 1..n |-> x]

RECURSIVE Join(_, _)
Join(sep, parts) ==
  IF parts = <<>> THEN <<>>
  ELSE IF Len(parts) = 1 THEN parts[1]
  ELSE parts[1] \o sep \o Join(sep, Tail(parts))

RECURSIVE Concat(_)
Concat(parts) == IF parts = <<>> THEN <<>> ELSE Head(parts) \o Concat(Tail(parts))

\* s[n:] of Python
DropPrefix(s, n) == IF Len(s) <= n THEN <<>> ELSE SubSeq(s, n + 1, Len(s))

\* s[:n] of Python
TakePrefix(s, n) == IF Len(s) <= n THEN s ELSE SubSeq(s, 1, n)

-----------------------------------------------------------------------------
(* hashlib.sha256, bytes.hex, bytes.fromhex, str(int)                      *)

DigestSize == 32

sha256(data) == << <<SymByte, data>> >> \o Repeat(<<0>>, DigestSize - 1)

HexDigits == S(<<"0", "1", "2", "3", "4", "5", "6", "7",
                 "8", "9", "a", "b", "c", "d", "e", "f">>)

UpperHexDigits == S(<<"0", "1", "2", "3", "4", "5", "6", "7",
                      "8", "9", "A", "B", "C", "D", "E", "F">>)

HexByte(b) ==
  IF IsSym(b) THEN << <<SymHi, b[2]>>, <<SymLo>> >>
  ELSE << HexDigits[(b[1] \div 16) + 1], HexDigits[(b[1] % 16) + 1] >>

\* bytes.hex(): two digits per byte
hex(bytes) ==
  [i \in 1..(2 * Len(bytes)) |-> HexByte(bytes[(i + 1) \div 2])[((i - 1) % 2) + 1]]

hexdigest(data) == hex(sha256(data))

IsHexChar(c) ==
  \E i \in 1..16 : c = HexDigits[i] \/ c = UpperHexDigits[i]

HexVal(c) == (CHOOSE i \in 1..16 : c = HexDigits[i] \/ c = UpperHexDigits[i]) - 1

IsSpace(c) == c = <<32>> \/ c \in {<<9>>, <<10>>, <<11>>, <<12>>, <<13>>}

\* bytes.fromhex: the result, or the token Raise when it raises ValueError.
\* Whitespace is skipped between bytes; each byte is two hex digits.
Raise == << <<-1>> >>

\* the two characters at positions i and j of text spell one byte
IsHexPair(text, i, j) ==
  /\ j = i + 1
  /\ \/ text[i][1] = SymHi /\ text[j] = <<SymLo>>
     \/ IsHexChar(text[i]) /\ IsHexChar(text[j])

HexPairValue(hi, lo) ==
  IF hi[1] = SymHi THEN <<SymByte, hi[2]>> ELSE <<HexVal(hi) * 16 + HexVal(lo)>>

fromhex(text) ==
  LET at == SelectSeq([i \in 1..Len(text) |-> i], LAMBDA i : ~IsSpace(text[i]))
      n == Len(at)
  IN IF n % 2 # 0 \/ \E m \in 1..(n \div 2) : ~IsHexPair(text, at[2 * m - 1], at[2 * m])
     THEN Raise
     ELSE [m \in 1..(n \div 2) |-> HexPairValue(text[at[2 * m - 1]], text[at[2 * m]])]

RECURSIVE NatToStr(_)
NatToStr(n) ==
  IF n < 10 THEN <<HexDigits[n + 1]>>
  ELSE NatToStr(n \div 10) \o <<HexDigits[(n % 10) + 1]>>

\* str(n) for an int n
IntToStr(n) == IF n < 0 THEN S(<<"-">>) \o NatToStr(-n) ELSE NatToStr(n)

\* Python's None, and the truth value of `x or default`
None == << <<-2>> >>

Falsy(x) == x = None \/ x = <<>>

Or(x, default) == IF Falsy(x) THEN default ELSE x

-----------------------------------------------------------------------------
(* JSON values and json.dumps                                              *)

JNull == [t |-> "null", s |-> <<>>, n |-> 0, items |-> <<>>]
JBool(b) == [t |-> "bool", s |-> <<>>, n |-> IF b THEN 1 ELSE 0, items |-> <<>>]
JInt(i) == [t |-> "int", s |-> <<>>, n |-> i, items |-> <<>>]
\* a float, given in hundredths: JFloat(85) is 0.85, JFloat(100) is 1.0
JFloat(h) == [t |-> "float", s |-> <<>>, n |-> h, items |-> <<>>]
JStr(text) == [t |-> "str", s |-> text, n |-> 0, items |-> <<>>]
JList(vals) == [t |-> "list", s |-> <<>>, n |-> 0,
                items |-> [i \in DOMAIN vals |-> [k |-> <<>>, v |-> vals[i]]]]
\* a dict, given as the tuple of its <<key, value>> pairs in insertion order
JDict(kvs) == [t |-> "dict", s |-> <<>>, n |-> 0,
               items |-> [i \in DOMAIN kvs |-> [k |-> kvs[i][1], v |-> kvs[i][2]]]]

\* float.__repr__ for a value with at most two decimals
FloatRepr(h) ==
  LET a == IF h < 0 THEN -h ELSE h
      frac == a % 100
      digits == IF frac % 10 = 0 THEN NatToStr(frac \div 10)
                ELSE IF frac < 10 THEN S(<<"0">>) \o NatToStr(frac)
                ELSE NatToStr(frac)
  IN (IF h < 0 THEN S(<<"-">>) ELSE <<>>) \o NatToStr(a \div 100) \o S(<<".">>) \o digits

\* json.encoder.py_encode_basestring_ascii on printable ASCII text
RECURSIVE EscapeChars(_)
EscapeChars(text) ==
  IF text = <<>> THEN <<>>
  ELSE IF Len(text) = 1
       THEN (IF text[1] = <<Ord("\"")>> \/ text[1] = <<Ord("\\")>>
             THEN S(<<"\\">>) ELSE <<>>) \o text
  ELSE LET half == Len(text) \div 2
       IN EscapeChars(SubSeq(text, 1, half))
          \o EscapeChars(SubSeq(text, half + 1, Len(text)))

EncodeString(text) == S(<<"\"">>) \o EscapeChars(text) \o S(<<"\"">>)

\* str < str of Python: lexicographic by code point
RECURSIVE StrLess(_, _)
StrLess(a, b) ==
  IF b = <<>> THEN FALSE
  ELSE IF a = <<>> THEN TRUE
  ELSE IF Head(a)[1] # Head(b)[1] THEN Head(a)[1] < Head(b)[1]
  ELSE StrLess(Tail(a), Tail(b))

\* sorted(dct.items()): insertion sort by key (keys of a dict are distinct)
RECURSIVE InsertByKey(_, _)
InsertByKey(e, sorted) ==
  IF sorted = <<>> THEN <<e>>
  ELSE IF StrLess(e.k, Head(sorted).k) THEN <<e>> \o sorted
  ELSE <<Head(sorted)>> \o InsertByKey(e, Tail(sorted))

RECURSIVE SortItems(_)
SortItems(items) ==
  IF items = <<>> THEN <<>> ELSE InsertByKey(Head(items), SortItems(Tail(items)))

\* json.dumps(v, sort_keys=sort_keys, separators=(item_sep, key_sep))
RECURSIVE json_dumps(_, _, _, _)
json_dumps(v, sort_keys, item_sep, key_sep) ==
  CASE v.t = "null" -> S(<<"n", "u", "l", "l">>)
    [] v.t = "bool" -> IF v.n = 1 THEN S(<<"t", "r", "u", "e">>)
                       ELSE S(<<"f", "a", "l", "s", "e">>)
    [] v.t = "int" -> IntToStr(v.n)
    [] v.t = "float" -> FloatRepr(v.n)
    [] v.t = "str" -> EncodeString(v.s)
    [] v.t = "list" ->
         S(<<"[">>)
         \o Join(item_sep, [i \in DOMAIN v.items |->
                              json_dumps(v.items[i].v, sort_keys, item_sep, key_sep)])
         \o S(<<"]">>)
    [] v.t = "dict" ->
         LET items == IF sort_keys THEN SortItems(v.items) ELSE v.items
         IN S(<<"{">>)
            \o Join(item_sep, [i \in DOMAIN items |->
                                 EncodeString(items[i].k) \o key_sep
                                 \o json_dumps(items[i].v, sort_keys, item_sep, key_sep)])
            \o S(<<"}">>)

DefaultItemSep == S(<<",", " ">>)
DefaultKeySep == S(<<":", " ">>)
CompactItemSep == S(<<",">>)
CompactKeySep == S(<<":">>)

Ox == S(<<"0", "x">>)

-----------------------------------------------------------------------------
(* cryptography: P-256 key pairs and ECDSA over a pre-hashed digest        *)

\* the public key of a private key
public_key(private_key) == private_key + 128

DerTag == 48

\* private_key.sign(digest, ECDSA(Prehashed(SHA256()))): DER bytes, or Raise
\* (ValueError) when the digest is not of the hash's size; k is the random
\* per-signature secret.
EcdsaSign(private_key, digest, k) ==
  IF Len(digest) # DigestSize THEN Raise
  ELSE << <<DerTag>>, <<public_key(private_key)>>, <<k>> >> \o digest

\* public_key.verify(sig, digest, ...): TRUE when it returns, FALSE when it
\* raises (InvalidSignature, or ValueError for a digest of the wrong size)
EcdsaVerify(pubkey, sig_bytes, digest) ==
  /\ Len(digest) = DigestSize
  /\ Len(sig_bytes) = 3 + DigestSize
  /\ sig_bytes[1] = <<DerTag>>
  /\ sig_bytes[2] = <<pubkey>>
  /\ SubSeq(sig_bytes, 4, Len(sig_bytes)) = digest

-----------------------------------------------------------------------------
(* config.py                                                               *)

TEE_ENCLAVE_ID ==
  S(<<"0", "x", "1", "2", "3", "4", "5", "6", "7", "8", "9", "0", "a", "b", "c", "d", "e", "f">>)
TEE_ENCLAVE_PUBKEY ==
  S(<<"0", "x", "a", "b", "c", "d", "e", "f", "1", "2", "3", "4", "5", "6", "7", "8", "9", "0">>)
TEE_MRENCLAVE ==
  S(<<"0", "x", "d", "e", "f", "1", "2", "3", "4", "5", "6", "7", "8", "9", "0", "a", "b", "c">>)

-----------------------------------------------------------------------------
(* signature_generator.py: TEESignatureGenerator                           *)

\* __init__; private_key is the key ec.generate_private_key draws
TEESignatureGenerator(enclave_id, enclave_pubkey, mrenclave, private_key) ==
  [enclave_id |-> Or(enclave_id, TEE_ENCLAVE_ID),
   enclave_pubkey |-> Or(enclave_pubkey, TEE_ENCLAVE_PUBKEY),
   mrenclave |-> Or(mrenclave, TEE_MRENCLAVE),
   private_key |-> private_key,
   public_key |-> public_key(private_key)]

NonceBytes == 32

\* secrets.token_hex(nbytes) for the random byte r the system source returns
token_hex(nbytes, r) == hex(Repeat(<<0>>, nbytes - 1) \o << <<r>> >>)

generate_nonce(self, r) == Ox \o token_hex(NonceBytes, r)

\* hash_input that returns the bare hex digest
hash_input_without_prefix(self, data) ==
  hexdigest(json_dumps(data, TRUE, DefaultItemSep, DefaultKeySep))

hash_input(self, data) ==
  Ox \o hexdigest(json_dumps(data, TRUE, DefaultItemSep, DefaultKeySep))

hash_output(self, data) ==
  Ox \o hexdigest(json_dumps(data, TRUE, DefaultItemSep, DefaultKeySep))

Delimiter == S(<<"|", "|">>)

\* mutant of digest_string: blob_hash is left out of the components
digest_string_without_blob_hash(self, h_in, h_out, blob_id, blob_hash, timestamp, nonce) ==
  Join(Delimiter, <<h_in, h_out, blob_id, IntToStr(timestamp), nonce,
                    self.enclave_id, self.mrenclave>>)

\* the string create_report_digest hashes
digest_string(self, h_in, h_out, blob_id, blob_hash, timestamp, nonce) ==
  Join(Delimiter, <<h_in, h_out, blob_id, blob_hash, IntToStr(timestamp), nonce,
                    self.enclave_id, self.mrenclave>>)

create_report_digest(self, h_in, h_out, blob_id, blob_hash, timestamp, nonce) ==
  sha256(digest_string(self, h_in, h_out, blob_id, blob_hash, timestamp, nonce))

\* mutant of sign_report: the hex text is returned without the 0x prefix
sign_report_without_prefix(self, report_digest, k) ==
  LET signature == EcdsaSign(self.private_key, report_digest, k)
  IN IF signature = Raise THEN Raise ELSE hex(signature)

sign_report(self, report_digest, k) ==
  LET signature == EcdsaSign(self.private_key, report_digest, k)
  IN IF signature = Raise THEN Raise ELSE Ox \o hex(signature)

\* sign_report with a key pair that is renewed after every signature
SelfAfterSignReport_renewing_key(self, report_digest, k) ==
  [self EXCEPT !.private_key = self.private_key + 1,
               !.public_key = public_key(self.private_key + 1)]

\* the instance after sign_report: the method assigns no attribute of self
SelfAfterSignReport(self, report_digest, k) == self

generate_attestation(self, report_digest, mrsigner, now) ==
  LET attestation_data ==
        JDict(<< <<S(<<"v", "e", "r", "s", "i", "o", "n">>), JInt(4)>>,
                 <<S(<<"s", "i", "g", "n", "_", "t", "y", "p", "e">>), JInt(1)>>,
                 <<S(<<"e", "n", "c", "l", "a", "v", "e", "_", "i", "d">>),
                   JStr(self.enclave_id)>>,
                 <<S(<<"m", "r", "e", "n", "c", "l", "a", "v", "e">>),
                   JStr(self.mrenclave)>>,
                 <<S(<<"m", "r", "s", "i", "g", "n", "e", "r">>),
                   JStr(Ox \o token_hex(NonceBytes, mrsigner))>>,
                 <<S(<<"r", "e", "p", "o", "r", "t", "_", "d", "a", "t", "a">>),
                   JStr(hex(report_digest))>>,
                 <<S(<<"t", "i", "m", "e", "s", "t", "a", "m", "p">>), JInt(now)>>,
                 <<S(<<"s", "t", "a", "t", "u", "s">>), JStr(S(<<"O", "K">>))>> >>)
  IN Ox \o hexdigest(json_dumps(attestation_data, TRUE, DefaultItemSep, DefaultKeySep))

\* mutant of create_tee_proof: the proof's timestamp is read from the clock
\* again when the proof is assembled
create_tee_proof_rereads_clock(self, inference_input, inference_output, blob_id, blob_hash, env) ==
  LET nonce == generate_nonce(self, env.nonce)
      h_in == hash_input(self, inference_input)
      h_out == hash_output(self, inference_output)
      report_digest ==
        create_report_digest(self, h_in, h_out, blob_id, blob_hash, env.time, nonce)
  IN [tee_proof |->
        [enclave_id |-> self.enclave_id,
         enclave_pubkey |-> self.enclave_pubkey,
         mrenclave |-> self.mrenclave,
         sig |-> sign_report(self, report_digest, env.k),
         attestation |-> generate_attestation(self, report_digest, env.mrsigner, env.time2),
         timestamp |-> env.time2,
         nonce |-> nonce,
         h_in |-> h_in,
         h_out |-> h_out,
         blob_id |-> blob_id,
         blob_hash |-> blob_hash],
      report_digest |-> report_digest]

\* create_tee_proof: env holds what the call reads from its environment, the
\* clock (time, time2), the random source (nonce, mrsigner) and the signing
\* secret k.  The result holds the returned tee_proof and the digest signed.
create_tee_proof(self, inference_input, inference_output, blob_id, blob_hash, env) ==
  LET timestamp == env.time
      nonce == generate_nonce(self, env.nonce)
      h_in == hash_input(self, inference_input)
      h_out == hash_output(self, inference_output)
      report_digest ==
        create_report_digest(self, h_in, h_out, blob_id, blob_hash, timestamp, nonce)
      signature == sign_report(self, report_digest, env.k)
      attestation == generate_attestation(self, report_digest, env.mrsigner, env.time2)
  IN [tee_proof |->
        [enclave_id |-> self.enclave_id,
         enclave_pubkey |-> self.enclave_pubkey,
         mrenclave |-> self.mrenclave,
         sig |-> signature,
         attestation |-> attestation,
         timestamp |-> timestamp,
         nonce |-> nonce,
         h_in |-> h_in,
         h_out |-> h_out,
         blob_id |-> blob_id,
         blob_hash |-> blob_hash],
      report_digest |-> report_digest]

\* mutant of verify_signature: the signature is parsed but never verified
verify_signature_parse_only(self, report_digest, signature) ==
  IF signature = None THEN FALSE
  ELSE fromhex(DropPrefix(signature, 2)) # Raise

\* verify_signature: any exception (a signature that is not a str, text that
\* is not hex, a signature that does not verify) is caught and gives False
verify_signature(self, report_digest, signature) ==
  IF signature = None THEN FALSE
  ELSE LET sig_bytes == fromhex(DropPrefix(signature, 2))
       IN IF sig_bytes = Raise THEN FALSE
          ELSE EcdsaVerify(self.public_key, sig_bytes, report_digest)

-----------------------------------------------------------------------------
(* walrus_uploader.py: WalrusUploader                                      *)

\* mutant of hash_bundle: the keys are not sorted
hash_bundle_unsorted(self, bundle) ==
  Ox \o hexdigest(json_dumps(bundle, FALSE, CompactItemSep, CompactKeySep))

hash_bundle(self, bundle) ==
  Ox \o hexdigest(json_dumps(bundle, TRUE, CompactItemSep, CompactKeySep))

-----------------------------------------------------------------------------
(* Inputs of the calls                                                     *)

Instances == {"g1", "g2"}

\* the keys ec.generate_private_key may draw
PrivateKeys == {1, 2}

\* constructor arguments: all defaulted, or all given
CtorArgs ==
  { [enclave_id |-> None, enclave_pubkey |-> None, mrenclave |-> None],
    [enclave_id |-> S(<<"0", "x", "e">>), enclave_pubkey |-> S(<<"0", "x", "0", "4">>),
     mrenclave |-> S(<<"0", "x", "m">>)] }

\* what the random source may return: byte values 1..MaxRandom
MaxRandom == 2
RandomBytes == 1..MaxRandom

\* the per-signature secrets ECDSA may draw
SignSecrets == {1, 10}

\* what the clock may return: BaseTime .. BaseTime + MaxClock
MaxClock == 1
Timestamps == 1700000000..(1700000000 + MaxClock)
BaseTime == CHOOSE t \in Timestamps : \A u \in Timestamps : t <= u

\* inference results: <<inference_input, inference_output>>
Inferences ==
  { << JDict(<< <<S(<<"q">>), JStr(S(<<"T", "?">>))>> >>),
       JDict(<< <<S(<<"r">>), JDict(<< <<S(<<"v">>), JInt(1)>>,
                                       <<S(<<"c">>), JFloat(85)>> >>)>>,
                <<S(<<"s">>), JList(<<>>)>> >>) >>,
    << JDict(<< <<S(<<"q">>), JStr(S(<<"U", "?">>))>>, <<S(<<"n">>), JInt(1)>> >>),
       JDict(<< <<S(<<"s">>), JList(<<>>)>>,
                <<S(<<"r">>), JDict(<< <<S(<<"v">>), JInt(0)>>,
                                       <<S(<<"c">>), JFloat(100)>> >>)>> >>) >> }

\* storage results: <<blob_id, blob_hash>>
Blobs ==
  { << S(<<"a">>), S(<<"b", "|", "|", "0", "x", "c">>) >>,
    << S(<<"a", "|", "|", "b">>), S(<<"0", "x", "c">>) >> }

\* the self of the default construction with key pk
DefaultGenerator(pk) == TEESignatureGenerator(None, None, None, pk)

\* digests handed to sign_report and verify_signature: report digests, and
\* 32 arbitrary bytes as in test_generate_attestation
ReportDigests ==
  { create_report_digest(DefaultGenerator(1), S(<<"0", "x", "a">>), S(<<"0", "x", "d">>),
                         b, S(<<"0", "x", "1">>), BaseTime, S(<<"0", "x", "9">>))
      : b \in {S(<<"a">>)} }
  \cup { Repeat(<<116>>, DigestSize) }

\* bytes that are no SHA-256 digest: one byte short
ShortDigest == Repeat(<<116>>, DigestSize - 1)

\* what sign_report returns for some key, digest and secret
GenuineSignatures ==
  { sign_report(DefaultGenerator(pk), d, k) :
      pk \in PrivateKeys, d \in ReportDigests, k \in SignSecrets }

\* signatures handed to verify_signature: genuine ones, genuine ones with the
\* prefix replaced or missing, and forgeries
SignatureArgs ==
  GenuineSignatures
  \cup { S(<<"z", "z">>) \o DropPrefix(sg, 2) : sg \in GenuineSignatures }
  \cup { DropPrefix(sg, 2) : sg \in GenuineSignatures }
  \cup { Ox \o hex(Repeat(<<0>>, 71)), S(<<"0", "x", "z", "z">>), Ox, <<>>, None }

-----------------------------------------------------------------------------
(* The calls on TEESignatureGenerator instances.  gens maps each           *)
(* constructed instance to its fields; ret is the last call and what it    *)
(* returned, until the caller takes it (Return).                           *)

Idle == ret.op = "none"

New(i) ==
  /\ Idle
  /\ i \notin DOMAIN gens
  /\ \E a \in CtorArgs, pk \in PrivateKeys :
       gens' = gens @@ (i :> TEESignatureGenerator(a.enclave_id, a.enclave_pubkey,
                                                   a.mrenclave, pk))
  /\ ret' = [op |-> "new", gen |-> i]
  /\ UNCHANGED <<pair, run, walrus, tempfiles>>

GenerateNonce(i) ==
  /\ Idle
  /\ i \in DOMAIN gens
  /\ \E r \in RandomBytes :
       ret' = [op |-> "generate_nonce", gen |-> i, result |-> generate_nonce(gens[i], r)]
  /\ UNCHANGED <<gens, pair, run, walrus, tempfiles>>

HashInput(i) ==
  /\ Idle
  /\ i \in DOMAIN gens
  /\ \E inf \in Inferences : \E data \in {inf[1], inf[2]} :
       ret' = [op |-> "hash_input", gen |-> i, data |-> data,
               result |-> hash_input(gens[i], data)]
  /\ UNCHANGED <<gens, pair, run, walrus, tempfiles>>

HashOutput(i) ==
  /\ Idle
  /\ i \in DOMAIN gens
  /\ \E inf \in Inferences : \E data \in {inf[1], inf[2]} :
       ret' = [op |-> "hash_output", gen |-> i, data |-> data,
               result |-> hash_output(gens[i], data)]
  /\ UNCHANGED <<gens, pair, run, walrus, tempfiles>>

SignReport(i) ==
  /\ Idle
  /\ i \in DOMAIN gens
  /\ \E d \in ReportDigests \cup {ShortDigest}, k \in SignSecrets :
       ret' = [op |-> "sign_report", gen |-> i, report_digest |-> d,
               result |-> sign_report(gens[i], d, k)]
  /\ UNCHANGED <<gens, pair, run, walrus, tempfiles>>

GenerateAttestation(i) ==
  /\ Idle
  /\ i \in DOMAIN gens
  /\ \E d \in ReportDigests, r \in RandomBytes, now \in Timestamps :
       ret' = [op |-> "generate_attestation", gen |-> i, report_digest |-> d,
               result |-> generate_attestation(gens[i], d, r, now)]
  /\ UNCHANGED <<gens, pair, run, walrus, tempfiles>>

CreateTeeProof(i) ==
  /\ Idle
  /\ i \in DOMAIN gens
  /\ \E inf \in Inferences, blob \in Blobs,
        time \in Timestamps, time2 \in Timestamps,
        nonce \in RandomBytes, mrsigner \in RandomBytes, k \in SignSecrets :
       /\ time2 >= time
       /\ LET out == create_tee_proof(gens[i], inf[1], inf[2], blob[1], blob[2],
                                      [time |-> time, time2 |-> time2, nonce |-> nonce,
                                       mrsigner |-> mrsigner, k |-> k])
          IN ret' = [op |-> "create_tee_proof", gen |-> i, result |-> out.tee_proof,
                     report_digest |-> out.report_digest]
  /\ UNCHANGED <<gens, pair, run, walrus, tempfiles>>

VerifySignature(i) ==
  /\ Idle
  /\ i \in DOMAIN gens
  /\ \E d \in ReportDigests \cup {ShortDigest}, sg \in SignatureArgs :
       ret' = [op |-> "verify_signature", gen |-> i, report_digest |-> d,
               signature |-> sg, result |-> verify_signature(gens[i], d, sg)]
  /\ UNCHANGED <<gens, pair, run, walrus, tempfiles>>

\* hash_bundle of a WalrusUploader, on the values the generator hashes
HashBundle ==
  /\ Idle
  /\ \E inf \in Inferences : \E data \in {inf[1], inf[2]} :
       ret' = [op |-> "hash_bundle", data |-> data,
               result |-> hash_bundle(<<>>, data)]
  /\ UNCHANGED <<gens, pair, run, walrus, tempfiles>>

Return ==
  /\ ~Idle
  /\ ret' = [op |-> "none"]
  /\ UNCHANGED <<gens, pair, run, walrus, tempfiles>>

Init ==
  /\ gens = <<>>
  /\ ret = [op |-> "none"]
  /\ pair = <<>>
  /\ run = [pc |-> "idle"]
  /\ walrus = <<>>
  /\ tempfiles = {}

Next ==
  \E i \in Instances :
    \/ New(i)
    \/ GenerateNonce(i)
    \/ HashInput(i)
    \/ HashOutput(i)
    \/ SignReport(i)
    \/ GenerateAttestation(i)
    \/ CreateTeeProof(i)
    \/ VerifySignature(i)
    \/ HashBundle
    \/ Return

Spec == Init /\ [][Next]_vars

-----------------------------------------------------------------------------
(* create_report_digest as a function of its arguments (specification      *)
(* SpecDigest): pair holds two calls, each with its self, its arguments    *)
(* and its result.                                                         *)

DigestSelves ==
  { TEESignatureGenerator(a.enclave_id, a.enclave_pubkey, a.mrenclave, 1) : a \in CtorArgs }

DigestArgs ==
  [ h_in : { hash_input(DefaultGenerator(1), inf[1]) : inf \in Inferences },
    h_out : { hash_output(DefaultGenerator(1), inf[2]) : inf \in Inferences },
    blob_id : { blob[1] : blob \in Blobs },
    blob_hash : { blob[2] : blob \in Blobs },
    timestamp : Timestamps,
    nonce : { generate_nonce(DefaultGenerator(1), r) : r \in RandomBytes } ]

CreateReportDigest ==
  /\ Len(pair) < 2
  /\ \E self \in DigestSelves, a \in DigestArgs :
       pair' = Append(pair,
                 [self |-> self, args |-> a,
                  result |-> create_report_digest(self, a.h_in, a.h_out, a.blob_id,
                                                  a.blob_hash, a.timestamp, a.nonce)])
  /\ UNCHANGED <<gens, ret, run, walrus, tempfiles>>

NextDigest == CreateReportDigest

SpecDigest == Init /\ [][NextDigest]_vars

-----------------------------------------------------------------------------
(* The canonical hashes as functions of the data (specification SpecHash): *)
(* pair holds two values, each with its hash_bundle, hash_input and        *)
(* hash_output.                                                            *)

JsonKeys == { S(<<"a">>), S(<<"b">>) }

JsonNumbers == { JInt(1), JFloat(100) }

JsonLeaves == JsonNumbers \cup { JStr(S(<<"1">>)) }

JsonLists == { JList(<<x, y>>) : x, y \in { JInt(1), JInt(2) } }

\* dicts with two keys, in either insertion order
JsonDicts2 ==
  { JDict(<< <<ks[1], v1>>, <<ks[2], v2>> >>) :
      ks \in { q \in JsonKeys \X JsonKeys : q[1] # q[2] },
      v1 \in JsonNumbers, v2 \in JsonNumbers }

JsonDicts ==
  { JDict(<<>>) } \cup { JDict(<< <<k, v>> >>) : k \in JsonKeys, v \in JsonLeaves }
  \cup JsonDicts2

\* dicts that nest a dict, in either insertion order
JsonNested ==
  UNION { { JDict(<< <<S(<<"x">>), d>>, <<S(<<"n">>), v>> >>),
            JDict(<< <<S(<<"n">>), v>>, <<S(<<"x">>), d>> >>) } :
          d \in JsonDicts2, v \in JsonNumbers }

JsonValues == JsonLeaves \cup JsonLists \cup JsonDicts \cup JsonNested

HashData ==
  /\ Len(pair) < 2
  /\ \E data \in JsonValues :
       pair' = Append(pair,
                 [data |-> data,
                  hash_bundle |-> hash_bundle(<<>>, data),
                  hash_input |-> hash_input(DefaultGenerator(1), data),
                  hash_output |-> hash_output(DefaultGenerator(1), data)])
  /\ UNCHANGED <<gens, ret, run, walrus, tempfiles>>

NextHash == HashData

SpecHash == Init /\ [][NextHash]_vars

-----------------------------------------------------------------------------
(* Claims about the generator (specification Spec)                         *)

\* the digest a verifier recomputes from the fields of a proof alone
RecomputedDigest(self, p) ==
  create_report_digest([self EXCEPT !.enclave_id = p.enclave_id,
                                    !.mrenclave = p.mrenclave],
                       p.h_in, p.h_out, p.blob_id, p.blob_hash, p.timestamp, p.nonce)

\* C1: for every proof create_tee_proof returns, the digest recomputed from
\* the proof's own h_in, h_out, blob_id, blob_hash, timestamp, nonce,
\* enclave_id and mrenclave is the digest that was signed, and
\* verify_signature accepts the proof's sig for it.
C1_RecomputedDigestIsSigned ==
  ret.op = "create_tee_proof" =>
    /\ RecomputedDigest(gens[ret.gen], ret.result) = ret.report_digest
    /\ verify_signature(gens[ret.gen], RecomputedDigest(gens[ret.gen], ret.result),
                        ret.result.sig)

W1_ProofReturned ==
  /\ ret.op = "create_tee_proof"
  /\ ret.result.timestamp = BaseTime + 1
  /\ ret.result.enclave_id # TEE_ENCLAVE_ID
  /\ ret.result.blob_id = S(<<"a", "|", "|", "b">>)
  /\ verify_signature(gens[ret.gen], ret.report_digest, ret.result.sig)

\* the text that names a public key: 0x and the hex of its encoded point
\* (tag 0x04 and the key), and the key a text names (-1 when it names none)
PublicKeyText(pubkey) == Ox \o hex(<< <<4>>, <<pubkey>> >>)

KeyNamedBy(text) ==
  LET b == fromhex(DropPrefix(text, 2))
  IN IF b # Raise /\ Len(b) = 2 /\ b[1] = <<4>> THEN b[2][1] ELSE -1

\* C2: in every proof create_tee_proof returns, sig verifies against the
\* recomputed digest under the public key the proof carries in
\* enclave_pubkey.
C2_SigVerifiesUnderProofPubkey ==
  ret.op = "create_tee_proof" =>
    LET sig_bytes == fromhex(DropPrefix(ret.result.sig, 2))
    IN /\ sig_bytes # Raise
       /\ EcdsaVerify(KeyNamedBy(ret.result.enclave_pubkey), sig_bytes,
                      RecomputedDigest(gens[ret.gen], ret.result))

\* C3: for every 32-byte digest d and every generator g,
\* g.verify_signature(d, g.sign_report(d)) is True.
C3_SignThenVerify ==
  /\ (ret.op = "sign_report" /\ Len(ret.report_digest) = DigestSize) =>
       verify_signature(gens[ret.gen], ret.report_digest, ret.result)
  /\ (ret.op = "verify_signature" /\ Len(ret.report_digest) = DigestSize) =>
       \A k \in SignSecrets :
         ret.signature = sign_report(gens[ret.gen], ret.report_digest, k) => ret.result

W3_OwnSignatureVerified ==
  /\ ret.op = "verify_signature"
  /\ Len(ret.report_digest) = DigestSize
  /\ \E k \in SignSecrets :
       ret.signature = sign_report(gens[ret.gen], ret.report_digest, k)
  /\ ret.result

\* signature is 0x followed by the (lower-case) hex encoding of a signature
\* that the key of self made over report_digest
IsOwnSignatureText(self, report_digest, signature) ==
  /\ signature # None
  /\ LET sig_bytes == fromhex(DropPrefix(signature, 2))
     IN /\ sig_bytes # Raise
        /\ signature = Ox \o hex(sig_bytes)
        /\ EcdsaVerify(self.public_key, sig_bytes, report_digest)

\* C4: verify_signature returns False whenever signature is not 0x followed
\* by the hex encoding of a signature made by this generator's key over the
\* same digest (a signature over another digest, zeros, non-hex text, text
\* without the 0x prefix).
C4_RejectsAllOtherText ==
  (ret.op = "verify_signature"
     /\ ~IsOwnSignatureText(gens[ret.gen], ret.report_digest, ret.signature))
  => ~ret.result

\* C5: a signature one instance made over a digest D never verifies for D on
\* another instance that holds an unrelated key.
C5_OtherKeyRejects ==
  ret.op = "verify_signature" =>
    \A j \in DOMAIN gens, k \in SignSecrets :
      (/\ j # ret.gen
       /\ gens[j].private_key # gens[ret.gen].private_key
       /\ ret.signature = sign_report(gens[j], ret.report_digest, k))
      => ~ret.result

W5_OtherInstanceSignatureRejected ==
  /\ ret.op = "verify_signature"
  /\ \E j \in DOMAIN gens, k \in SignSecrets :
       /\ j # ret.gen
       /\ gens[j].private_key # gens[ret.gen].private_key
       /\ ret.signature = sign_report(gens[j], ret.report_digest, k)
       /\ verify_signature(gens[j], ret.report_digest, ret.signature)
  /\ ~ret.result

-----------------------------------------------------------------------------
(* Claims about create_report_digest (specification SpecDigest)            *)

\* the eight fields of a call
FieldTuple(c) ==
  <<c.args.h_in, c.args.h_out, c.args.blob_id, c.args.blob_hash,
    IntToStr(c.args.timestamp), c.args.nonce, c.self.enclave_id, c.self.mrenclave>>

PreHashString(c) ==
  digest_string(c.self, c.args.h_in, c.args.h_out, c.args.blob_id, c.args.blob_hash,
                c.args.timestamp, c.args.nonce)

\* C6: two distinct field tuples never serialize to the same pre-hash
\* string, so distinct tuples never share a digest.
C6_DistinctTuplesDistinctDigests ==
  \A i, j \in DOMAIN pair :
    FieldTuple(pair[i]) # FieldTuple(pair[j]) =>
      /\ PreHashString(pair[i]) # PreHashString(pair[j])
      /\ pair[i].result # pair[j].result

\* the number of arguments in which two calls differ
ArgsChanged(c, d) ==
  Cardinality({ f \in DOMAIN c.args : c.args[f] # d.args[f] })

\* C7: changing exactly one of the fields passed to create_report_digest,
\* on the same generator, changes the digest; the digest is 32 bytes.
C7_OneFieldChangesDigest ==
  /\ \A i \in DOMAIN pair : Len(pair[i].result) = 32
  /\ \A i, j \in DOMAIN pair :
       (pair[i].self = pair[j].self /\ ArgsChanged(pair[i], pair[j]) = 1)
       => pair[i].result # pair[j].result

W7_BlobHashChanged ==
  /\ Len(pair) = 2
  /\ pair[1].self = pair[2].self
  /\ ArgsChanged(pair[1], pair[2]) = 1
  /\ pair[1].args.blob_hash # pair[2].args.blob_hash
  /\ pair[1].result # pair[2].result

-----------------------------------------------------------------------------
(* Claims about the canonical hashes (specification SpecHash)              *)

\* b is a with the keys of its mappings permuted, at every depth
RECURSIVE IsKeyPermutation(_, _)
IsKeyPermutation(a, b) ==
  /\ a.t = b.t
  /\ CASE a.t = "dict" ->
            /\ Len(a.items) = Len(b.items)
            /\ \A i \in DOMAIN a.items : \E j \in DOMAIN b.items :
                 /\ a.items[i].k = b.items[j].k
                 /\ IsKeyPermutation(a.items[i].v, b.items[j].v)
       [] a.t = "list" ->
            /\ Len(a.items) = Len(b.items)
            /\ \A i \in DOMAIN a.items : IsKeyPermutation(a.items[i].v, b.items[i].v)
       [] OTHER -> a = b

\* C9: for every mapping and every permutation of its keys at every depth,
\* hash_bundle, hash_input and hash_output return the same hash.
C9_KeyOrderIndependent ==
  \A i, j \in DOMAIN pair :
    IsKeyPermutation(pair[i].data, pair[j].data) =>
      /\ pair[i].hash_bundle = pair[j].hash_bundle
      /\ pair[i].hash_input = pair[j].hash_input
      /\ pair[i].hash_output = pair[j].hash_output

W9_NestedKeysPermuted ==
  /\ Len(pair) = 2
  /\ pair[1].data # pair[2].data
  /\ pair[1].data.t = "dict"
  /\ \E i \in DOMAIN pair[1].data.items :
       /\ pair[1].data.items[i].v.t = "dict"
       /\ \A j \in DOMAIN pair[2].data.items :
            pair[2].data.items[j].v.t = "dict" =>
              pair[2].data.items[j].v # pair[1].data.items[i].v
  /\ IsKeyPermutation(pair[1].data, pair[2].data)
  /\ pair[1].hash_bundle = pair[2].hash_bundle

IsNumber(a) == a.t \in {"int", "float"}

\* the value of a number, in hundredths
Hundredths(a) == IF a.t = "int" THEN 100 * a.n ELSE a.n

\* structural equality: mappings ignoring key order, sequences by order,
\* scalars by value
RECURSIVE StructurallyEqual(_, _)
StructurallyEqual(a, b) ==
  IF IsNumber(a) /\ IsNumber(b) THEN Hundredths(a) = Hundredths(b)
  ELSE /\ a.t = b.t
       /\ CASE a.t = "dict" ->
                 /\ Len(a.items) = Len(b.items)
                 /\ \A i \in DOMAIN a.items : \E j \in DOMAIN b.items :
                      /\ a.items[i].k = b.items[j].k
                      /\ StructurallyEqual(a.items[i].v, b.items[j].v)
            [] a.t = "list" ->
                 /\ Len(a.items) = Len(b.items)
                 /\ \A i \in DOMAIN a.items :
                      StructurallyEqual(a.items[i].v, b.items[i].v)
            [] OTHER -> a = b

\* C10: hash_bundle(A) = hash_bundle(B) if and only if A and B are
\* structurally equal.
C10_HashEqualIffStructurallyEqual ==
  \A i, j \in DOMAIN pair :
    (pair[i].hash_bundle = pair[j].hash_bundle)
      <=> StructurallyEqual(pair[i].data, pair[j].data)

-----------------------------------------------------------------------------
(* Python containers                                                       *)

\* key in dct
HasKey(dct, key) == \E i \in DOMAIN dct.items : dct.items[i].k = key

\* dct[key], for a key the dict has
GetItem(dct, key) == dct.items[CHOOSE i \in DOMAIN dct.items : dct.items[i].k = key].v

\* sub in text, both str
IsSubstring(sub, text) ==
  \E i \in 0..(Len(text) - Len(sub)) : SubSeq(text, i + 1, i + Len(sub)) = sub

\* the types whose values support `in`
Iterable(c) == c.t \in {"dict", "list", "str"}

\* key in c, for a str key and an iterable c: a key of a dict, an element of
\* a list, a substring of a str
In(key, c) ==
  CASE c.t = "dict" -> HasKey(c, key)
    [] c.t = "list" -> \E i \in DOMAIN c.items : c.items[i].v = JStr(key)
    [] c.t = "str" -> IsSubstring(key, c.s)

\* the types that order against a float: int, float and bool
IsReal(v) == v.t \in {"int", "float", "bool"}

\* the value of a real, in hundredths (True is 1, False is 0)
RealValue(v) == IF v.t = "float" THEN v.n ELSE 100 * v.n

\* a == b of Python for scalars: numbers and bools by value, str by text
PyEq(a, b) ==
  IF IsReal(a) /\ IsReal(b) THEN RealValue(a) = RealValue(b)
  ELSE a = b

-----------------------------------------------------------------------------
(* openai_inference.py: GPT5Inference                                      *)

GPT5_MODEL == S(<<"g", "p", "t", "-", "5", "-", "t", "h", "i", "n", "k", "i", "n", "g", "@", "2", "0", "2", "5", "-", "1", "1", "-", "P", "O", "C">>)

\* __init__ with an API key given
GPT5Inference(api_key) == [api_key |-> api_key, model |-> GPT5_MODEL]

\* mutant of validate_output: the confidence range is not checked
validate_output_any_confidence(self, output) ==
  LET required_fields == <<S(<<"r", "e", "s", "o", "l", "u", "t", "i", "o", "n">>), S(<<"s", "o", "u", "r", "c", "e", "s">>), S(<<"r", "a", "t", "i", "o", "n", "a", "l", "e">>)>>
  IN IF \E i \in DOMAIN required_fields : ~HasKey(output, required_fields[i])
     THEN "False"
     ELSE LET resolution == GetItem(output, S(<<"r", "e", "s", "o", "l", "u", "t", "i", "o", "n">>))
          IN IF ~Iterable(resolution) THEN "TypeError"
             ELSE IF ~In(S(<<"v", "a", "l", "u", "e">>), resolution) \/ ~In(S(<<"c", "o", "n", "f", "i", "d", "e", "n", "c", "e">>), resolution)
             THEN "False"
             ELSE IF resolution.t # "dict" THEN "TypeError"
             ELSE IF ~(PyEq(GetItem(resolution, S(<<"v", "a", "l", "u", "e">>)), JInt(0))
                       \/ PyEq(GetItem(resolution, S(<<"v", "a", "l", "u", "e">>)), JInt(1)))
             THEN "False"
             ELSE "True"

\* mutant of validate_output: the value is not checked
validate_output_any_value(self, output) ==
  LET required_fields == <<S(<<"r", "e", "s", "o", "l", "u", "t", "i", "o", "n">>), S(<<"s", "o", "u", "r", "c", "e", "s">>), S(<<"r", "a", "t", "i", "o", "n", "a", "l", "e">>)>>
  IN IF \E i \in DOMAIN required_fields : ~HasKey(output, required_fields[i])
     THEN "False"
     ELSE LET resolution == GetItem(output, S(<<"r", "e", "s", "o", "l", "u", "t", "i", "o", "n">>))
          IN IF ~Iterable(resolution) THEN "TypeError"
             ELSE IF ~In(S(<<"v", "a", "l", "u", "e">>), resolution) \/ ~In(S(<<"c", "o", "n", "f", "i", "d", "e", "n", "c", "e">>), resolution)
             THEN "False"
             ELSE IF resolution.t # "dict" THEN "TypeError"
             ELSE LET confidence == GetItem(resolution, S(<<"c", "o", "n", "f", "i", "d", "e", "n", "c", "e">>))
                  IN IF ~IsReal(confidence) THEN "TypeError"
                     ELSE IF ~(0 <= RealValue(confidence) /\ RealValue(confidence) <= 100)
                     THEN "False"
                     ELSE "True"

\* validate_output: "True" or "False" for what it returns, "TypeError" when
\* it raises (resolution is not iterable, resolution is a str or list that
\* holds both names, confidence does not order against a float)
validate_output(self, output) ==
  LET required_fields == <<S(<<"r", "e", "s", "o", "l", "u", "t", "i", "o", "n">>), S(<<"s", "o", "u", "r", "c", "e", "s">>), S(<<"r", "a", "t", "i", "o", "n", "a", "l", "e">>)>>
  IN IF \E i \in DOMAIN required_fields : ~HasKey(output, required_fields[i])
     THEN "False"
     ELSE LET resolution == GetItem(output, S(<<"r", "e", "s", "o", "l", "u", "t", "i", "o", "n">>))
          IN IF ~Iterable(resolution) THEN "TypeError"
             ELSE IF ~In(S(<<"v", "a", "l", "u", "e">>), resolution) \/ ~In(S(<<"c", "o", "n", "f", "i", "d", "e", "n", "c", "e">>), resolution)
             THEN "False"
             ELSE IF resolution.t # "dict" THEN "TypeError"
             ELSE LET confidence == GetItem(resolution, S(<<"c", "o", "n", "f", "i", "d", "e", "n", "c", "e">>))
                      value == GetItem(resolution, S(<<"v", "a", "l", "u", "e">>))
                  IN IF ~IsReal(confidence) THEN "TypeError"
                     ELSE IF ~(0 <= RealValue(confidence) /\ RealValue(confidence) <= 100)
                     THEN "False"
                     ELSE IF ~(PyEq(value, JInt(0)) \/ PyEq(value, JInt(1)))
                     THEN "False"
                     ELSE "True"

-----------------------------------------------------------------------------
(* validate_output as a function of the provider's output (specification   *)
(* SpecValidate): ret holds the output and what the call gave.             *)

\* a dict of the entries of kvs that are present (an absent entry is <<>>)
DictOf(kvs) == JDict(SelectSeq(kvs, LAMBDA e : e # <<>>))

\* resolution.value and resolution.confidence of the provider: absent,
\* numbers in and out of range, booleans, and values of other types
OutputValues ==
  { <<>> } \cup
  { <<S(<<"v", "a", "l", "u", "e">>), v>> : v \in { JInt(0), JInt(1), JInt(2), JFloat(100), JBool(TRUE),
                                JStr(S(<<"1">>)), JNull } }

OutputConfidences ==
  { <<>> } \cup
  { <<S(<<"c", "o", "n", "f", "i", "d", "e", "n", "c", "e">>), c>> : c \in { JFloat(85), JFloat(150), JFloat(-1), JInt(0), JInt(1),
                                     JFloat(100), JStr(S(<<"0", ".", "8", "5">>)), JNull } }

OutputResolutions ==
  { <<>> } \cup
  { <<S(<<"r", "e", "s", "o", "l", "u", "t", "i", "o", "n">>), DictOf(<<v, c>>)>> : v \in OutputValues, c \in OutputConfidences }
  \cup { <<S(<<"r", "e", "s", "o", "l", "u", "t", "i", "o", "n">>), r>> :
           r \in { JStr(S(<<"v", "a", "l", "u", "e", " ", "c", "o", "n", "f", "i", "d", "e", "n", "c", "e">>)), JList(<<JStr(S(<<"v", "a", "l", "u", "e">>)), JStr(S(<<"c", "o", "n", "f", "i", "d", "e", "n", "c", "e">>))>>),
                   JInt(1), JNull } }

\* the source of test_validate_output_valid and of the end-to-end scenario,
\* and sources that lack a field or carry an empty one
SourceEntries ==
  { DictOf(<< <<S(<<"i", "d">>), JStr(S(<<"s", "r", "c", ":", "a">>))>>, <<S(<<"u", "r", "l">>), JStr(S(<<"h", "t", "t", "p", "s", ":", "/", "/", "x">>))>>,
              <<S(<<"q", "u", "o", "t", "e", "_", "h", "a", "s", "h">>), JStr(S(<<"0", "x", "a", "b", "c">>))>> >>),
    DictOf(<< <<S(<<"i", "d">>), JStr(S(<<"s", "r", "c", ":", "a">>))>>, <<S(<<"u", "r", "l">>), JStr(S(<<"h", "t", "t", "p", "s", ":", "/", "/", "x">>))>> >>),
    DictOf(<< <<S(<<"i", "d">>), JStr(<<>>)>>, <<S(<<"u", "r", "l">>), JStr(S(<<"h", "t", "t", "p", "s", ":", "/", "/", "x">>))>>,
              <<S(<<"q", "u", "o", "t", "e", "_", "h", "a", "s", "h">>), JStr(S(<<"0", "x", "a", "b", "c">>))>> >>) }

OutputSources ==
  { <<>>, <<S(<<"s", "o", "u", "r", "c", "e", "s">>), JList(<<>>)>> }
  \cup { <<S(<<"s", "o", "u", "r", "c", "e", "s">>), JList(<<e>>)>> : e \in SourceEntries }

OutputRationales ==
  { <<>>, <<S(<<"r", "a", "t", "i", "o", "n", "a", "l", "e">>), JStr(<<>>)>>, <<S(<<"r", "a", "t", "i", "o", "n", "a", "l", "e">>), JStr(S(<<"t", "h", "r", "e", "s", "h", "o", "l", "d", " ", "e", "x", "c", "e", "e", "d", "e", "d">>))>> }

\* what the provider may return: any JSON object over these entries
Outputs ==
  { DictOf(<<r, s, t>>) : r \in OutputResolutions, s \in OutputSources, t \in OutputRationales }

ValidateOutput ==
  /\ Idle
  /\ \E output \in Outputs :
       ret' = [op |-> "validate_output", output |-> output,
               result |-> validate_output(GPT5Inference(S(<<"t", "e", "s", "t", "_", "k", "e", "y">>)), output)]
  /\ UNCHANGED <<gens, pair, run, walrus, tempfiles>>

NextValidate == ValidateOutput \/ Return

SpecValidate == Init /\ [][NextValidate]_vars

-----------------------------------------------------------------------------
(* Claims about validate_output (specification SpecValidate)               *)

\* resolution is a mapping that carries a numeric confidence
HasNumericConfidence(output) ==
  /\ HasKey(output, S(<<"r", "e", "s", "o", "l", "u", "t", "i", "o", "n">>))
  /\ GetItem(output, S(<<"r", "e", "s", "o", "l", "u", "t", "i", "o", "n">>)).t = "dict"
  /\ HasKey(GetItem(output, S(<<"r", "e", "s", "o", "l", "u", "t", "i", "o", "n">>)), S(<<"c", "o", "n", "f", "i", "d", "e", "n", "c", "e">>))
  /\ GetItem(GetItem(output, S(<<"r", "e", "s", "o", "l", "u", "t", "i", "o", "n">>)), S(<<"c", "o", "n", "f", "i", "d", "e", "n", "c", "e">>)).t \in {"int", "float"}

\* the value equals 0 or 1 (equality of Python: 1.0 and True equal 1)
IsZeroOrOne(v) == IsReal(v) /\ RealValue(v) \in {0, 100}

\* everything the validator is said to require of such an output
OutputAccepted(output) ==
  /\ \A f \in {S(<<"r", "e", "s", "o", "l", "u", "t", "i", "o", "n">>), S(<<"s", "o", "u", "r", "c", "e", "s">>), S(<<"r", "a", "t", "i", "o", "n", "a", "l", "e">>)} : HasKey(output, f)
  /\ LET resolution == GetItem(output, S(<<"r", "e", "s", "o", "l", "u", "t", "i", "o", "n">>))
     IN /\ HasKey(resolution, S(<<"v", "a", "l", "u", "e">>))
        /\ HasKey(resolution, S(<<"c", "o", "n", "f", "i", "d", "e", "n", "c", "e">>))
        /\ RealValue(GetItem(resolution, S(<<"c", "o", "n", "f", "i", "d", "e", "n", "c", "e">>))) \in 0..100
        /\ IsZeroOrOne(GetItem(resolution, S(<<"v", "a", "l", "u", "e">>)))

\* C11: for an output whose resolution is a mapping with a numeric
\* confidence, validate_output returns True exactly when resolution, sources
\* and rationale are present, resolution has value and confidence, confidence
\* is in [0,1] and value is 0 or 1, and returns False otherwise
C11_ValidateOutputExactly ==
  (ret.op = "validate_output" /\ HasNumericConfidence(ret.output))
    => /\ ret.result \in {"True", "False"}
       /\ ret.result = "True" <=> OutputAccepted(ret.output)

\* the valid end-to-end output was accepted
W11_ValidOutputAccepted ==
  /\ ret.op = "validate_output"
  /\ ret.output =
       DictOf(<< <<S(<<"r", "e", "s", "o", "l", "u", "t", "i", "o", "n">>), DictOf(<< <<S(<<"v", "a", "l", "u", "e">>), JInt(1)>>,
                                              <<S(<<"c", "o", "n", "f", "i", "d", "e", "n", "c", "e">>), JFloat(85)>> >>)>>,
                 <<S(<<"s", "o", "u", "r", "c", "e", "s">>),
                   JList(<<DictOf(<< <<S(<<"i", "d">>), JStr(S(<<"s", "r", "c", ":", "a">>))>>,
                                     <<S(<<"u", "r", "l">>), JStr(S(<<"h", "t", "t", "p", "s", ":", "/", "/", "x">>))>>,
                                     <<S(<<"q", "u", "o", "t", "e", "_", "h", "a", "s", "h">>), JStr(S(<<"0", "x", "a", "b", "c">>))>> >>)>>)>>,
                 <<S(<<"r", "a", "t", "i", "o", "n", "a", "l", "e">>), JStr(S(<<"t", "h", "r", "e", "s", "h", "o", "l", "d", " ", "e", "x", "c", "e", "e", "d", "e", "d">>))>> >>)
  /\ ret.result = "True"

\* a source entry with id, url and quote_hash, none of them empty
SourceComplete(e) ==
  /\ e.t = "dict"
  /\ \A f \in {S(<<"i", "d">>), S(<<"u", "r", "l">>), S(<<"q", "u", "o", "t", "e", "_", "h", "a", "s", "h">>)} :
       HasKey(e, f) /\ GetItem(e, f).t = "str" /\ GetItem(e, f).s # <<>>

\* sources is empty or has an incomplete entry, or rationale is empty
SourcesOrRationaleDeficient(output) ==
  \/ /\ HasKey(output, S(<<"s", "o", "u", "r", "c", "e", "s">>))
     /\ LET sources == GetItem(output, S(<<"s", "o", "u", "r", "c", "e", "s">>))
        IN \/ sources.items = <<>>
           \/ \E i \in DOMAIN sources.items : ~SourceComplete(sources.items[i].v)
  \/ /\ HasKey(output, S(<<"r", "a", "t", "i", "o", "n", "a", "l", "e">>))
     /\ GetItem(output, S(<<"r", "a", "t", "i", "o", "n", "a", "l", "e">>)) = JStr(<<>>)

\* C12: validate_output never returns True for an output whose sources is
\* empty or has an entry with a missing or empty id, url or quote_hash, or
\* whose rationale is empty
C12_RejectsDeficientSources ==
  (ret.op = "validate_output" /\ SourcesOrRationaleDeficient(ret.output))
    => ret.result # "True"

-----------------------------------------------------------------------------
(* config.py: the resolution schema and the prompts                        *)

Newline == << <<10>> >>

\* a text of several lines
Lines(lines) == Join(Newline, lines)

RESOLUTION_SCHEMA ==
  JDict(<<
    <<S(<<"t", "y", "p", "e">>), JStr(S(<<"o", "b", "j", "e", "c", "t">>))>>,
    <<S(<<"r", "e", "q", "u", "i", "r", "e", "d">>),
       JList(<<JStr(S(<<"r", "o", "u", "n", "d">>)), JStr(S(<<"t", "a", "s", "k">>)), JStr(S(<<"r", "e", "s", "o", "l", "u", "t", "i", "o", "n">>)), JStr(S(<<"s", "o", "u", "r", "c", "e", "s">>)), JStr(S(<<"r", "a", "t", "i", "o", "n", "a", "l", "e">>)), JStr(S(<<"c", "o", "n", "t", "r", "o", "l", "s">>)), JStr(S(<<"t", "e", "e", "_", "p", "r", "o", "o", "f">>))>>)>>,
    <<S(<<"p", "r", "o", "p", "e", "r", "t", "i", "e", "s">>),
       JDict(<<
         <<S(<<"r", "o", "u", "n", "d">>),
            JDict(<<
              <<S(<<"t", "y", "p", "e">>), JStr(S(<<"i", "n", "t", "e", "g", "e", "r">>))>> >>)>>,
         <<S(<<"t", "a", "s", "k">>),
            JDict(<<
              <<S(<<"t", "y", "p", "e">>), JStr(S(<<"s", "t", "r", "i", "n", "g">>))>>,
              <<S(<<"e", "n", "u", "m">>),
                 JList(<<JStr(S(<<"b", "i", "n", "a", "r", "y">>)), JStr(S(<<"n", "u", "m", "e", "r", "i", "c">>))>>)>> >>)>>,
         <<S(<<"r", "e", "s", "o", "l", "u", "t", "i", "o", "n">>),
            JDict(<<
              <<S(<<"t", "y", "p", "e">>), JStr(S(<<"o", "b", "j", "e", "c", "t">>))>>,
              <<S(<<"r", "e", "q", "u", "i", "r", "e", "d">>),
                 JList(<<JStr(S(<<"v", "a", "l", "u", "e">>)), JStr(S(<<"c", "o", "n", "f", "i", "d", "e", "n", "c", "e">>))>>)>>,
              <<S(<<"p", "r", "o", "p", "e", "r", "t", "i", "e", "s">>),
                 JDict(<<
                   <<S(<<"v", "a", "l", "u", "e">>),
                      JDict(<<
                        <<S(<<"t", "y", "p", "e">>), JStr(S(<<"n", "u", "m", "b", "e", "r">>))>> >>)>>,
                   <<S(<<"c", "o", "n", "f", "i", "d", "e", "n", "c", "e">>),
                      JDict(<<
                        <<S(<<"t", "y", "p", "e">>), JStr(S(<<"n", "u", "m", "b", "e", "r">>))>>,
                        <<S(<<"m", "i", "n", "i", "m", "u", "m">>), JInt(0)>>,
                        <<S(<<"m", "a", "x", "i", "m", "u", "m">>), JInt(1)>> >>)>> >>)>> >>)>>,
         <<S(<<"s", "o", "u", "r", "c", "e", "s">>),
            JDict(<<
              <<S(<<"t", "y", "p", "e">>), JStr(S(<<"a", "r", "r", "a", "y">>))>>,
              <<S(<<"i", "t", "e", "m", "s">>),
                 JDict(<<
                   <<S(<<"t", "y", "p", "e">>), JStr(S(<<"o", "b", "j", "e", "c", "t">>))>>,
                   <<S(<<"r", "e", "q", "u", "i", "r", "e", "d">>),
                      JList(<<JStr(S(<<"i", "d">>)), JStr(S(<<"u", "r", "l">>)), JStr(S(<<"q", "u", "o", "t", "e", "_", "h", "a", "s", "h">>))>>)>>,
                   <<S(<<"p", "r", "o", "p", "e", "r", "t", "i", "e", "s">>),
                      JDict(<<
                        <<S(<<"i", "d">>),
                           JDict(<<
                             <<S(<<"t", "y", "p", "e">>), JStr(S(<<"s", "t", "r", "i", "n", "g">>))>> >>)>>,
                        <<S(<<"u", "r", "l">>),
                           JDict(<<
                             <<S(<<"t", "y", "p", "e">>), JStr(S(<<"s", "t", "r", "i", "n", "g">>))>> >>)>>,
                        <<S(<<"q", "u", "o", "t", "e", "_", "h", "a", "s", "h">>),
                           JDict(<<
                             <<S(<<"t", "y", "p", "e">>), JStr(S(<<"s", "t", "r", "i", "n", "g">>))>> >>)>> >>)>> >>)>> >>)>>,
         <<S(<<"r", "a", "t", "i", "o", "n", "a", "l", "e">>),
            JDict(<<
              <<S(<<"t", "y", "p", "e">>), JStr(S(<<"s", "t", "r", "i", "n", "g">>))>> >>)>>,
         <<S(<<"c", "o", "n", "t", "r", "o", "l", "s">>),
            JDict(<<
              <<S(<<"t", "y", "p", "e">>), JStr(S(<<"o", "b", "j", "e", "c", "t">>))>>,
              <<S(<<"r", "e", "q", "u", "i", "r", "e", "d">>),
                 JList(<<JStr(S(<<"m", "o", "d", "e", "l", "_", "i", "d">>)), JStr(S(<<"p", "r", "o", "m", "p", "t", "_", "h", "a", "s", "h">>)), JStr(S(<<"p", "a", "r", "s", "e", "r", "_", "h", "a", "s", "h">>)), JStr(S(<<"s", "c", "h", "e", "m", "a", "_", "h", "a", "s", "h">>))>>)>>,
              <<S(<<"p", "r", "o", "p", "e", "r", "t", "i", "e", "s">>),
                 JDict(<<
                   <<S(<<"m", "o", "d", "e", "l", "_", "i", "d">>),
                      JDict(<<
                        <<S(<<"t", "y", "p", "e">>), JStr(S(<<"s", "t", "r", "i", "n", "g">>))>> >>)>>,
                   <<S(<<"p", "r", "o", "m", "p", "t", "_", "h", "a", "s", "h">>),
                      JDict(<<
                        <<S(<<"t", "y", "p", "e">>), JStr(S(<<"s", "t", "r", "i", "n", "g">>))>> >>)>>,
                   <<S(<<"p", "a", "r", "s", "e", "r", "_", "h", "a", "s", "h">>),
                      JDict(<<
                        <<S(<<"t", "y", "p", "e">>), JStr(S(<<"s", "t", "r", "i", "n", "g">>))>> >>)>>,
                   <<S(<<"s", "c", "h", "e", "m", "a", "_", "h", "a", "s", "h">>),
                      JDict(<<
                        <<S(<<"t", "y", "p", "e">>), JStr(S(<<"s", "t", "r", "i", "n", "g">>))>> >>)>> >>)>> >>)>>,
         <<S(<<"t", "e", "e", "_", "p", "r", "o", "o", "f">>),
            JDict(<<
              <<S(<<"t", "y", "p", "e">>), JStr(S(<<"o", "b", "j", "e", "c", "t">>))>>,
              <<S(<<"r", "e", "q", "u", "i", "r", "e", "d">>),
                 JList(<<JStr(S(<<"e", "n", "c", "l", "a", "v", "e", "_", "i", "d">>)), JStr(S(<<"e", "n", "c", "l", "a", "v", "e", "_", "p", "u", "b", "k", "e", "y">>)), JStr(S(<<"m", "r", "e", "n", "c", "l", "a", "v", "e">>)), JStr(S(<<"s", "i", "g">>)), JStr(S(<<"a", "t", "t", "e", "s", "t", "a", "t", "i", "o", "n">>)), JStr(S(<<"t", "i", "m", "e", "s", "t", "a", "m", "p">>)), JStr(S(<<"n", "o", "n", "c", "e">>)), JStr(S(<<"h", "_", "i", "n">>)), JStr(S(<<"h", "_", "o", "u", "t">>)), JStr(S(<<"b", "l", "o", "b", "_", "i", "d">>)), JStr(S(<<"b", "l", "o", "b", "_", "h", "a", "s", "h">>))>>)>>,
              <<S(<<"p", "r", "o", "p", "e", "r", "t", "i", "e", "s">>),
                 JDict(<<
                   <<S(<<"e", "n", "c", "l", "a", "v", "e", "_", "i", "d">>),
                      JDict(<<
                        <<S(<<"t", "y", "p", "e">>), JStr(S(<<"s", "t", "r", "i", "n", "g">>))>> >>)>>,
                   <<S(<<"e", "n", "c", "l", "a", "v", "e", "_", "p", "u", "b", "k", "e", "y">>),
                      JDict(<<
                        <<S(<<"t", "y", "p", "e">>), JStr(S(<<"s", "t", "r", "i", "n", "g">>))>> >>)>>,
                   <<S(<<"m", "r", "e", "n", "c", "l", "a", "v", "e">>),
                      JDict(<<
                        <<S(<<"t", "y", "p", "e">>), JStr(S(<<"s", "t", "r", "i", "n", "g">>))>> >>)>>,
                   <<S(<<"s", "i", "g">>),
                      JDict(<<
                        <<S(<<"t", "y", "p", "e">>), JStr(S(<<"s", "t", "r", "i", "n", "g">>))>> >>)>>,
                   <<S(<<"a", "t", "t", "e", "s", "t", "a", "t", "i", "o", "n">>),
                      JDict(<<
                        <<S(<<"t", "y", "p", "e">>), JStr(S(<<"s", "t", "r", "i", "n", "g">>))>> >>)>>,
                   <<S(<<"t", "i", "m", "e", "s", "t", "a", "m", "p">>),
                      JDict(<<
                        <<S(<<"t", "y", "p", "e">>), JStr(S(<<"i", "n", "t", "e", "g", "e", "r">>))>> >>)>>,
                   <<S(<<"n", "o", "n", "c", "e">>),
                      JDict(<<
                        <<S(<<"t", "y", "p", "e">>), JStr(S(<<"s", "t", "r", "i", "n", "g">>))>> >>)>>,
                   <<S(<<"h", "_", "i", "n">>),
                      JDict(<<
                        <<S(<<"t", "y", "p", "e">>), JStr(S(<<"s", "t", "r", "i", "n", "g">>))>> >>)>>,
                   <<S(<<"h", "_", "o", "u", "t">>),
                      JDict(<<
                        <<S(<<"t", "y", "p", "e">>), JStr(S(<<"s", "t", "r", "i", "n", "g">>))>> >>)>>,
                   <<S(<<"b", "l", "o", "b", "_", "i", "d">>),
                      JDict(<<
                        <<S(<<"t", "y", "p", "e">>), JStr(S(<<"s", "t", "r", "i", "n", "g">>))>> >>)>>,
                   <<S(<<"b", "l", "o", "b", "_", "h", "a", "s", "h">>),
                      JDict(<<
                        <<S(<<"t", "y", "p", "e">>), JStr(S(<<"s", "t", "r", "i", "n", "g">>))>> >>)>> >>)>> >>)>> >>)>> >>)

SYSTEM_PROMPT ==
  Lines(<<
    S(<<"Y", "o", "u", " ", "a", "r", "e", " ", "a", " ", "v", "e", "r", "i", "f", "i",
         "a", "b", "l", "e", " ", "A", "I", " ", "o", "r", "a", "c", "l", "e", " ", "f", "o",
         "r", " ", "p", "r", "e", "d", "i", "c", "t", "i", "o", "n", " ", "m", "a", "r", "k",
         "e", "t", "s", ".">>),
    S(<<"Y", "o", "u", "r", " ", "t", "a", "s", "k", " ", "i", "s", " ", "t", "o", " ",
         "a", "n", "a", "l", "y", "z", "e", " ", "d", "a", "t", "a", " ", "f", "r", "o", "m",
         " ", "m", "u", "l", "t", "i", "p", "l", "e", " ", "t", "r", "u", "s", "t", "e", "d",
         " ", "s", "o", "u", "r", "c", "e", "s", " ", "a", "n", "d", " ", "d", "e", "t", "e",
         "r", "m", "i", "n", "e", " ", "t", "h", "e", " ", "o", "u", "t", "c", "o", "m", "e",
         " ", "o", "f", " ", "a", " ", "p", "r", "e", "d", "i", "c", "t", "i", "o", "n", " ",
         "m", "a", "r", "k", "e", "t", " ", "q", "u", "e", "s", "t", "i", "o", "n", ".">>),
    S(<<>>),
    S(<<"Y", "o", "u", " ", "m", "u", "s", "t", ":">>),
    S(<<"1", ".", " ", "C", "r", "o", "s", "s", "-", "r", "e", "f", "e", "r", "e", "n",
         "c", "e", " ", "m", "u", "l", "t", "i", "p", "l", "e", " ", "d", "a", "t", "a", " ",
         "s", "o", "u", "r", "c", "e", "s">>),
    S(<<"2", ".", " ", "P", "r", "o", "v", "i", "d", "e", " ", "a", " ", "c", "o", "n",
         "f", "i", "d", "e", "n", "c", "e", " ", "s", "c", "o", "r", "e", " ", "(", "0", ".",
         "0", " ", "t", "o", " ", "1", ".", "0", ")">>),
    S(<<"3", ".", " ", "C", "i", "t", "e", " ", "s", "p", "e", "c", "i", "f", "i", "c",
         " ", "s", "o", "u", "r", "c", "e", "s", " ", "w", "i", "t", "h", " ", "q", "u", "o",
         "t", "e", "s">>),
    S(<<"4", ".", " ", "E", "x", "p", "l", "a", "i", "n", " ", "y", "o", "u", "r", " ",
         "r", "e", "a", "s", "o", "n", "i", "n", "g", " ", "c", "l", "e", "a", "r", "l",
         "y">>),
    S(<<"5", ".", " ", "R", "e", "t", "u", "r", "n", " ", "o", "u", "t", "p", "u", "t",
         " ", "i", "n", " ", "s", "t", "r", "i", "c", "t", " ", "J", "S", "O", "N", " ", "f",
         "o", "r", "m", "a", "t">>),
    S(<<>>),
    S(<<"B", "e", " ", "o", "b", "j", "e", "c", "t", "i", "v", "e", ",", " ", "f", "a",
         "c", "t", "u", "a", "l", ",", " ", "a", "n", "d", " ", "t", "r", "a", "n", "s", "p",
         "a", "r", "e", "n", "t", " ", "i", "n", " ", "y", "o", "u", "r", " ", "a", "n", "a",
         "l", "y", "s", "i", "s", ".">>) >>)

\* USER_PROMPT_TEMPLATE: the texts around {question}, {sources_data},
\* {resolution_criteria} and {schema}
USER_PROMPT_TEMPLATE ==
  <<S(<<"M", "a", "r", "k", "e", "t", " ", "Q", "u", "e", "s", "t", "i", "o", "n", ":",
         " ">>),
    Lines(<<
      S(<<>>),
      S(<<>>),
      S(<<"D", "a", "t", "a", " ", "S", "o", "u", "r", "c", "e", "s", ":">>),
      S(<<>>) >>),
    Lines(<<
      S(<<>>),
      S(<<>>),
      S(<<"R", "e", "s", "o", "l", "u", "t", "i", "o", "n", " ", "C", "r", "i", "t", "e",
           "r", "i", "a", ":">>),
      S(<<>>) >>),
    Lines(<<
      S(<<>>),
      S(<<>>),
      S(<<"P", "l", "e", "a", "s", "e", " ", "a", "n", "a", "l", "y", "z", "e", " ", "t",
           "h", "e", " ", "d", "a", "t", "a", " ", "a", "n", "d", " ", "d", "e", "t", "e",
           "r", "m", "i", "n", "e", ":">>),
      S(<<"1", ".", " ", "R", "e", "s", "o", "l", "u", "t", "i", "o", "n", " ", "v", "a",
           "l", "u", "e", " ", "(", "1", " ", "f", "o", "r", " ", "Y", "E", "S", ",", " ",
           "0", " ", "f", "o", "r", " ", "N", "O", ")">>),
      S(<<"2", ".", " ", "C", "o", "n", "f", "i", "d", "e", "n", "c", "e", " ", "s", "c",
           "o", "r", "e", " ", "(", "0", ".", "0", " ", "t", "o", " ", "1", ".", "0", ")">>),
      S(<<"3", ".", " ", "L", "i", "s", "t", " ", "o", "f", " ", "s", "o", "u", "r", "c",
           "e", "s", " ", "u", "s", "e", "d", " ", "w", "i", "t", "h", " ", "s", "p", "e",
           "c", "i", "f", "i", "c", " ", "q", "u", "o", "t", "e", "s">>),
      S(<<"4", ".", " ", "C", "l", "e", "a", "r", " ", "r", "a", "t", "i", "o", "n", "a",
           "l", "e", " ", "f", "o", "r", " ", "y", "o", "u", "r", " ", "d", "e", "c", "i",
           "s", "i", "o", "n">>),
      S(<<>>),
      S(<<"R", "e", "t", "u", "r", "n", " ", "y", "o", "u", "r", " ", "a", "n", "s", "w",
           "e", "r", " ", "i", "n", " ", "t", "h", "e", " ", "f", "o", "l", "l", "o", "w",
           "i", "n", "g", " ", "J", "S", "O", "N", " ", "f", "o", "r", "m", "a", "t", ":">>),
      S(<<>>) >>),
    Lines(<<
      S(<<>>),
      S(<<>>) >>) >>

-----------------------------------------------------------------------------
(* json.dumps(indent=...) and json.loads                                   *)

\* the line break and indentation json.dumps writes before an entry
NewlineIndent(indent, level) == Newline \o Repeat(<<32>>, indent * level)

\* json.dumps(v, indent=indent), for the value at nesting depth level
RECURSIVE json_dumps_indent(_, _, _)
json_dumps_indent(v, indent, level) ==
  CASE v.t = "null" -> S(<<"n", "u", "l", "l">>)
    [] v.t = "bool" -> IF v.n = 1 THEN S(<<"t", "r", "u", "e">>)
                       ELSE S(<<"f", "a", "l", "s", "e">>)
    [] v.t = "int" -> IntToStr(v.n)
    [] v.t = "float" -> FloatRepr(v.n)
    [] v.t = "str" -> EncodeString(v.s)
    [] v.t = "list" ->
         IF v.items = <<>> THEN S(<<"[", "]">>)
         ELSE S(<<"[">>) \o NewlineIndent(indent, level + 1)
              \o Join(S(<<",">>) \o NewlineIndent(indent, level + 1),
                      [i \in DOMAIN v.items |->
                         json_dumps_indent(v.items[i].v, indent, level + 1)])
              \o NewlineIndent(indent, level) \o S(<<"]">>)
    [] v.t = "dict" ->
         IF v.items = <<>> THEN S(<<"{", "}">>)
         ELSE S(<<"{">>) \o NewlineIndent(indent, level + 1)
              \o Join(S(<<",">>) \o NewlineIndent(indent, level + 1),
                      [i \in DOMAIN v.items |->
                         EncodeString(v.items[i].k) \o S(<<":", " ">>)
                         \o json_dumps_indent(v.items[i].v, indent, level + 1)])
              \o NewlineIndent(indent, level) \o S(<<"}">>)

\* what stands for a raised exception where a JSON value is expected
JRaise == [t |-> "raise", s |-> <<>>, n |-> 0, items |-> <<>>]

\* the result of a failed parse
ParseFail == [ok |-> FALSE, v |-> JRaise, next |-> 0]

ParseOk(v, next) == [ok |-> TRUE, v |-> v, next |-> next]

\* json.decoder.WHITESPACE: space, tab, line feed, carriage return
IsJsonSpace(c) == c \in { <<32>>, <<9>>, <<10>>, <<13>> }

\* the first index from i on that holds no whitespace (Len(text) + 1 if none)
SkipSpace(text, i) ==
  CHOOSE j \in i..(Len(text) + 1) :
    /\ \A k \in i..(j - 1) : IsJsonSpace(text[k])
    /\ j = Len(text) + 1 \/ ~IsJsonSpace(text[j])

StartsAt(text, i, word) ==
  /\ i + Len(word) - 1 <= Len(text)
  /\ SubSeq(text, i, i + Len(word) - 1) = word

IsDigit(c) == Len(c) = 1 /\ c[1] \in 48..57

\* the first index from i on that holds no digit
DigitsEnd(text, i) ==
  CHOOSE j \in i..(Len(text) + 1) :
    /\ \A k \in i..(j - 1) : IsDigit(text[k])
    /\ j = Len(text) + 1 \/ ~IsDigit(text[j])

\* int(digits)
RECURSIVE StrToNat(_)
StrToNat(digits) ==
  IF digits = <<>> THEN 0
  ELSE 10 * StrToNat(SubSeq(digits, 1, Len(digits) - 1)) + (digits[Len(digits)][1] - 48)

\* json.scanner NUMBER_RE at index i: -?(0|[1-9]\d*)(\.\d+)?  A number with a
\* fraction is a float, kept in hundredths (fractions of at most two digits);
\* exponents are not read.
ParseNumber(text, i) ==
  LET neg == text[i] = <<Ord("-")>>
      s == IF neg THEN i + 1 ELSE i
      e == IF s <= Len(text) /\ text[s] = <<Ord("0")>> THEN s + 1 ELSE DigitsEnd(text, s)
      f == IF e + 1 <= Len(text) /\ text[e] = <<Ord(".")>> THEN DigitsEnd(text, e + 1) ELSE e
      int == StrToNat(SubSeq(text, s, e - 1))
      frac == SubSeq(text, e + 1, f - 1) \o S(<<"0">>)
      hundredths == 100 * int + StrToNat(SubSeq(frac, 1, 2))
  IN IF s > Len(text) \/ e = s THEN ParseFail
     ELSE IF f > e + 1
          THEN IF f - e - 1 > 2 THEN ParseFail
               ELSE ParseOk(JFloat(IF neg THEN -hundredths ELSE hundredths), f)
     ELSE ParseOk(JInt(IF neg THEN -int ELSE int), e)

\* the number of backslashes that end just before index j, not counting
\* index i and before
BackslashRun(text, i, j) ==
  CHOOSE n \in 0..(j - i - 1) :
    /\ \A k \in (j - n)..(j - 1) : text[k] = <<Ord("\\")>>
    /\ n = j - i - 1 \/ text[j - n - 1] # <<Ord("\\")>>

\* the index of the quote that closes the string opened at index i, 0 if none
ClosingQuote(text, i) ==
  LET closes == { j \in (i + 1)..Len(text) :
                    text[j] = <<Ord("\"")>> /\ BackslashRun(text, i, j) % 2 = 0 }
  IN IF closes = {} THEN 0 ELSE CHOOSE j \in closes : \A k \in closes : j <= k

\* what a backslash escape stands for
EscapeTable ==
  [c \in { <<Ord("\"")>>, <<Ord("\\")>>, <<Ord("/")>>, <<Ord("b")>>, <<Ord("f")>>,
           <<Ord("n")>>, <<Ord("r")>>, <<Ord("t")>> } |->
     CASE c = <<Ord("b")>> -> <<8>>
       [] c = <<Ord("f")>> -> <<12>>
       [] c = <<Ord("n")>> -> <<10>>
       [] c = <<Ord("r")>> -> <<13>>
       [] c = <<Ord("t")>> -> <<9>>
       [] OTHER -> c]

\* json.decoder.py_scanstring on the text between the quotes: the decoded
\* str, or Raise for a control character or an invalid escape
RECURSIVE Unescape(_)
Unescape(body) ==
  IF body = <<>> THEN <<>>
  ELSE IF body[1] = <<Ord("\\")>>
       THEN IF Len(body) >= 2 /\ body[2] \in DOMAIN EscapeTable
            THEN LET rest == Unescape(SubSeq(body, 3, Len(body)))
                 IN IF rest = Raise THEN Raise ELSE <<EscapeTable[body[2]]>> \o rest
            ELSE IF /\ Len(body) >= 6
                    /\ body[2] = <<Ord("u")>>
                    /\ \A k \in 3..6 : IsHexChar(body[k])
            THEN LET rest == Unescape(SubSeq(body, 7, Len(body)))
                     code == 4096 * HexVal(body[3]) + 256 * HexVal(body[4])
                             + 16 * HexVal(body[5]) + HexVal(body[6])
                 IN IF rest = Raise THEN Raise ELSE << <<code>> >> \o rest
            ELSE Raise
  ELSE IF Len(body[1]) = 1 /\ body[1][1] < 32 THEN Raise
  ELSE LET rest == Unescape(Tail(body))
       IN IF rest = Raise THEN Raise ELSE <<body[1]>> \o rest

\* the string that opens at index i
ParseString(text, i) ==
  LET close == ClosingQuote(text, i)
      decoded == Unescape(SubSeq(text, i + 1, close - 1))
  IN IF close = 0 \/ decoded = Raise THEN ParseFail
     ELSE ParseOk(JStr(decoded), close + 1)

\* dct[key] = v: a key the dict has keeps its place
SetItem(items, key, v) ==
  IF \E i \in DOMAIN items : items[i].k = key
  THEN [i \in DOMAIN items |-> IF items[i].k = key THEN [k |-> key, v |-> v] ELSE items[i]]
  ELSE Append(items, [k |-> key, v |-> v])

\* json.scanner on text from index i0 on.  mode "value" reads one value;
\* "elements" and "members" read the rest of an array or object whose
\* entries so far are acc, "after_element" and "after_member" what follows an
\* entry (a comma and more entries, or the closing bracket).
RECURSIVE Parse(_, _, _, _)
Parse(text, i0, mode, acc) ==
  LET i == SkipSpace(text, i0)
  IN IF i > Len(text) THEN ParseFail
     ELSE CASE mode = "value" ->
            IF text[i] = <<Ord("\"")>> THEN ParseString(text, i)
            ELSE IF text[i] = <<Ord("{")>>
                 THEN IF SkipSpace(text, i + 1) <= Len(text)
                         /\ text[SkipSpace(text, i + 1)] = <<Ord("}")>>
                      THEN ParseOk(JDict(<<>>), SkipSpace(text, i + 1) + 1)
                      ELSE Parse(text, i + 1, "members", <<>>)
            ELSE IF text[i] = <<Ord("[")>>
                 THEN IF SkipSpace(text, i + 1) <= Len(text)
                         /\ text[SkipSpace(text, i + 1)] = <<Ord("]")>>
                      THEN ParseOk(JList(<<>>), SkipSpace(text, i + 1) + 1)
                      ELSE Parse(text, i + 1, "elements", <<>>)
            ELSE IF StartsAt(text, i, S(<<"n", "u", "l", "l">>)) THEN ParseOk(JNull, i + 4)
            ELSE IF StartsAt(text, i, S(<<"t", "r", "u", "e">>))
                 THEN ParseOk(JBool(TRUE), i + 4)
            ELSE IF StartsAt(text, i, S(<<"f", "a", "l", "s", "e">>))
                 THEN ParseOk(JBool(FALSE), i + 5)
            ELSE IF text[i] = <<Ord("-")>> \/ IsDigit(text[i]) THEN ParseNumber(text, i)
            ELSE ParseFail
          [] mode = "elements" ->
            LET r == Parse(text, i, "value", <<>>)
            IN IF ~r.ok THEN ParseFail
               ELSE Parse(text, r.next, "after_element", Append(acc, r.v))
          [] mode = "after_element" ->
            IF text[i] = <<Ord(",")>> THEN Parse(text, i + 1, "elements", acc)
            ELSE IF text[i] = <<Ord("]")>> THEN ParseOk(JList(acc), i + 1)
            ELSE ParseFail
          [] mode = "members" ->
            LET key == IF text[i] = <<Ord("\"")>> THEN ParseString(text, i) ELSE ParseFail
                c == SkipSpace(text, key.next)
                r == Parse(text, c + 1, "value", <<>>)
            IN IF ~key.ok \/ c > Len(text) \/ text[c] # <<Ord(":")>> THEN ParseFail
               ELSE IF ~r.ok THEN ParseFail
               ELSE Parse(text, r.next, "after_member", SetItem(acc, key.v.s, r.v))
          [] mode = "after_member" ->
            IF text[i] = <<Ord(",")>> THEN Parse(text, i + 1, "members", acc)
            ELSE IF text[i] = <<Ord("}")>>
                 THEN ParseOk([t |-> "dict", s |-> <<>>, n |-> 0, items |-> acc], i + 1)
            ELSE ParseFail

\* json.loads(text): the value, or JRaise for text that is no JSON document
\* (a symbolic byte left in the text is no JSON either)
json_loads(text) ==
  LET r == Parse(text, 1, "value", <<>>)
  IN IF r.ok /\ SkipSpace(text, r.next) = Len(text) + 1 THEN r.v ELSE JRaise

-----------------------------------------------------------------------------
(* openai_inference.py: prompts and inference                              *)

\* create_prompt_hash
create_prompt_hash(self, system_prompt, user_prompt) ==
  hexdigest(system_prompt \o S(<<"|", "|", "|">>) \o user_prompt)

\* normalize_sources_data, for sources whose id, url and data are str
normalize_sources_data(self, sources) ==
  Lines(Concat([i \in DOMAIN sources.items |->
                  LET source == sources.items[i].v
                  IN << S(<<"S", "o", "u", "r", "c", "e", ":", " ">>) \o GetItem(source, S(<<"i", "d">>)).s,
                        S(<<"U", "R", "L", ":", " ">>) \o GetItem(source, S(<<"u", "r", "l">>)).s,
                        S(<<"D", "a", "t", "a", ":", " ">>) \o GetItem(source, S(<<"d", "a", "t", "a">>)).s,
                        S(<<"-", "-", "-">>) >>]))

\* mutant of infer: a failed call or unreadable content is answered with a
\* default output instead of an error
infer_with_default_answer(self, question, sources, resolution_criteria, response) ==
  LET output_json == IF response.error THEN JRaise ELSE json_loads(response.content)
  IN JDict(<< <<S(<<"i", "n", "p", "u", "t">>),
                 JDict(<< <<S(<<"q", "u", "e", "s", "t", "i", "o", "n">>), JStr(question)>>,
                          <<S(<<"s", "o", "u", "r", "c", "e", "s">>), sources>>,
                          <<S(<<"r", "e", "s", "o", "l", "u", "t", "i", "o", "n", "_", "c", "r", "i", "t", "e", "r", "i", "a">>), JStr(resolution_criteria)>> >>)>>,
               <<S(<<"o", "u", "t", "p", "u", "t">>),
                 IF output_json = JRaise
                 THEN JDict(<< <<S(<<"r", "e", "s", "o", "l", "u", "t", "i", "o", "n">>),
                                 JDict(<< <<S(<<"v", "a", "l", "u", "e">>), JInt(0)>>,
                                          <<S(<<"c", "o", "n", "f", "i", "d", "e", "n", "c", "e">>), JFloat(0)>> >>)>>,
                               <<S(<<"s", "o", "u", "r", "c", "e", "s">>), JList(<<>>)>>,
                               <<S(<<"r", "a", "t", "i", "o", "n", "a", "l", "e">>), JStr(<<>>)>> >>)
                 ELSE output_json>>,
               <<S(<<"m", "e", "t", "a", "d", "a", "t", "a">>),
                 JDict(<< <<S(<<"m", "o", "d", "e", "l">>), JStr(self.model)>>,
                          <<S(<<"p", "r", "o", "m", "p", "t", "_", "h", "a", "s", "h">>), JStr(Ox)>>,
                          <<S(<<"t", "o", "k", "e", "n", "s", "_", "u", "s", "e", "d">>), JInt(0)>>,
                          <<S(<<"f", "i", "n", "i", "s", "h", "_", "r", "e", "a", "s", "o", "n">>), JStr(S(<<"s", "t", "o", "p">>))>> >>)>> >>)

\* infer: response is what the chat completion call gives, an error or the
\* content, token count and finish reason of the first choice.  The result,
\* or JRaise for the RuntimeError that replaces any exception.
infer(self, question, sources, resolution_criteria, response) ==
  LET sources_data == normalize_sources_data(self, sources)
      user_prompt ==
        USER_PROMPT_TEMPLATE[1] \o question
        \o USER_PROMPT_TEMPLATE[2] \o sources_data
        \o USER_PROMPT_TEMPLATE[3] \o resolution_criteria
        \o USER_PROMPT_TEMPLATE[4] \o json_dumps_indent(RESOLUTION_SCHEMA, 2, 0)
        \o USER_PROMPT_TEMPLATE[5]
      prompt_hash == create_prompt_hash(self, SYSTEM_PROMPT, user_prompt)
      output_json == IF response.error THEN JRaise ELSE json_loads(response.content)
  IN IF output_json = JRaise THEN JRaise
     ELSE JDict(<< <<S(<<"i", "n", "p", "u", "t">>),
                     JDict(<< <<S(<<"q", "u", "e", "s", "t", "i", "o", "n">>), JStr(question)>>,
                              <<S(<<"s", "o", "u", "r", "c", "e", "s">>), sources>>,
                              <<S(<<"r", "e", "s", "o", "l", "u", "t", "i", "o", "n", "_", "c", "r", "i", "t", "e", "r", "i", "a">>), JStr(resolution_criteria)>> >>)>>,
                   <<S(<<"o", "u", "t", "p", "u", "t">>), output_json>>,
                   <<S(<<"m", "e", "t", "a", "d", "a", "t", "a">>),
                     JDict(<< <<S(<<"m", "o", "d", "e", "l">>), JStr(self.model)>>,
                              <<S(<<"p", "r", "o", "m", "p", "t", "_", "h", "a", "s", "h">>), JStr(Ox \o prompt_hash)>>,
                              <<S(<<"t", "o", "k", "e", "n", "s", "_", "u", "s", "e", "d">>), JInt(response.total_tokens)>>,
                              <<S(<<"f", "i", "n", "i", "s", "h", "_", "r", "e", "a", "s", "o", "n">>), JStr(response.finish_reason)>> >>)>> >>)

-----------------------------------------------------------------------------
(* walrus_uploader.py: evidence bundle and upload                          *)

\* WalrusUploader.__init__ with the CLI found
WalrusUploader(walrus_cli_path) ==
  [walrus_cli |-> Or(walrus_cli_path, S(<<"w", "a", "l", "r", "u", "s">>)), epochs |-> 5]

\* metadata.get("timestamp", 0)
GetOr(dct, key, default) == IF HasKey(dct, key) THEN GetItem(dct, key) ELSE default

\* the bundle stamped 0 whatever the metadata holds
create_evidence_bundle_unstamped(self, inference_input, inference_output, metadata) ==
  JDict(<< <<S(<<"v", "e", "r", "s", "i", "o", "n">>), JStr(S(<<"1", ".", "0">>))>>,
           <<S(<<"t", "i", "m", "e", "s", "t", "a", "m", "p">>), JInt(0)>>,
           <<S(<<"i", "n", "p", "u", "t">>), inference_input>>,
           <<S(<<"o", "u", "t", "p", "u", "t">>), inference_output>>,
           <<S(<<"m", "e", "t", "a", "d", "a", "t", "a">>), metadata>> >>)

create_evidence_bundle(self, inference_input, inference_output, metadata) ==
  JDict(<< <<S(<<"v", "e", "r", "s", "i", "o", "n">>), JStr(S(<<"1", ".", "0">>))>>,
           <<S(<<"t", "i", "m", "e", "s", "t", "a", "m", "p">>), GetOr(metadata, S(<<"t", "i", "m", "e", "s", "t", "a", "m", "p">>), JInt(0))>>,
           <<S(<<"i", "n", "p", "u", "t">>), inference_input>>,
           <<S(<<"o", "u", "t", "p", "u", "t">>), inference_output>>,
           <<S(<<"m", "e", "t", "a", "d", "a", "t", "a">>), metadata>> >>)

\* the first index at which sub occurs in text, 0 if it does not
Find(sub, text) ==
  LET at == { i \in 1..(Len(text) - Len(sub) + 1) : SubSeq(text, i, i + Len(sub) - 1) = sub }
  IN IF at = {} THEN 0 ELSE CHOOSE i \in at : \A j \in at : i <= j

\* str.strip()
Strip(text) ==
  LET keep == { i \in DOMAIN text : ~(text[i] \in { <<32>>, <<9>>, <<10>>, <<11>>, <<12>>, <<13>> }) }
  IN IF keep = {} THEN <<>>
     ELSE SubSeq(text, CHOOSE i \in keep : \A j \in keep : i <= j,
                       CHOOSE i \in keep : \A j \in keep : i >= j)

\* the blob id upload_to_walrus extracts from the CLI output: of the first
\* line that holds "Blob ID:", the text after its first occurrence (up to a
\* second one), stripped; <<>> when no line holds it
ExtractBlobId(output) ==
  LET needle == S(<<"B", "l", "o", "b", " ", "I", "D", ":">>)
      p == Find(needle, output)
      after == SubSeq(output, p + Len(needle), Len(output))
      eol == Find(Newline, after)
      rest == IF eol = 0 THEN after ELSE SubSeq(after, 1, eol - 1)
      again == Find(needle, rest)
  IN IF p = 0 THEN <<>>
     ELSE Strip(IF again = 0 THEN rest ELSE SubSeq(rest, 1, again - 1))

\* the file upload_to_walrus hands to the CLI
UploadFile(bundle) == json_dumps_indent(bundle, 2, 0)

\* upload_to_walrus: cli is what subprocess.run meets, the binary missing
\* (launched FALSE), a non-zero exit, or exit 0 with its stdout.  raised is
\* the exception that leaves the call, "" when it returns the pair.
upload_to_walrus(self, bundle, cli) ==
  IF ~cli.launched THEN [raised |-> "FileNotFoundError", blob_id |-> <<>>, blob_hash |-> <<>>]
  ELSE IF cli.returncode # 0
  THEN [raised |-> "RuntimeError", blob_id |-> <<>>, blob_hash |-> <<>>]
  ELSE LET blob_id == ExtractBlobId(cli.stdout)
       IN IF blob_id = <<>>
          THEN [raised |-> "RuntimeError", blob_id |-> <<>>, blob_hash |-> <<>>]
          ELSE [raised |-> "", blob_id |-> blob_id, blob_hash |-> hash_bundle(self, bundle)]

-----------------------------------------------------------------------------
(* tee_reporter.py: TEEReporter                                            *)

\* str.lower() on ASCII text
Lower(text) ==
  [i \in DOMAIN text |->
     IF Len(text[i]) = 1 /\ text[i][1] \in 65..90 THEN <<text[i][1] + 32>> ELSE text[i]]

\* a source of collect_data_sources
DataSource(id, url, data) ==
  JDict(<< <<S(<<"i", "d">>), JStr(id)>>, <<S(<<"u", "r", "l">>), JStr(url)>>, <<S(<<"d", "a", "t", "a">>), JStr(data)>> >>)

\* __init__ with an API key given and the Walrus CLI found; private_key is
\* the key the signer's constructor draws
TEEReporter(openai_api_key, walrus_cli_path, enable_walrus_upload, private_key) ==
  [gpt5 |-> GPT5Inference(openai_api_key),
   walrus |-> WalrusUploader(walrus_cli_path),
   tee_signer |-> DefaultGenerator(private_key),
   enable_walrus_upload |-> enable_walrus_upload]

collect_data_sources(self, market_question, category) ==
  IF Lower(category) = S(<<"c", "r", "y", "p", "t", "o">>)
  THEN JList(<< DataSource(S(<<"c", "o", "i", "n", "m", "a", "r", "k", "e", "t", "c", "a", "p", ":", "b", "t", "c">>),
                           S(<<"h", "t", "t", "p", "s", ":", "/", "/", "c", "o", "i", "n", "m", "a", "r", "k", "e", "t", "c", "a", "p", ".", "c", "o", "m", "/", "c", "u", "r", "r", "e", "n", "c", "i", "e", "s", "/", "b", "i", "t", "c", "o", "i", "n", "/">>),
                           S(<<"C", "u", "r", "r", "e", "n", "t", " ", "B", "T", "C", " ", "p", "r", "i", "c", "e", ":", " ", "$", "9", "5", ",", "2", "3", "4", " ", "(", "D", "e", "c", " ", "3", "0", ",", " ", "2", "0", "2", "4", " ", "1", "4", ":", "3", "0", " ", "U", "T", "C", ")">>)),
                DataSource(S(<<"c", "o", "i", "n", "g", "e", "c", "k", "o", ":", "b", "t", "c">>),
                           S(<<"h", "t", "t", "p", "s", ":", "/", "/", "w", "w", "w", ".", "c", "o", "i", "n", "g", "e", "c", "k", "o", ".", "c", "o", "m", "/", "e", "n", "/", "c", "o", "i", "n", "s", "/", "b", "i", "t", "c", "o", "i", "n">>),
                           S(<<"C", "u", "r", "r", "e", "n", "t", " ", "B", "T", "C", " ", "p", "r", "i", "c", "e", ":", " ", "$", "9", "5", ",", "1", "8", "0", " ", "(", "D", "e", "c", " ", "3", "0", ",", " ", "2", "0", "2", "4", " ", "1", "4", ":", "3", "1", " ", "U", "T", "C", ")">>)),
                DataSource(S(<<"b", "i", "n", "a", "n", "c", "e", ":", "b", "t", "c">>),
                           S(<<"h", "t", "t", "p", "s", ":", "/", "/", "a", "p", "i", ".", "b", "i", "n", "a", "n", "c", "e", ".", "c", "o", "m", "/", "a", "p", "i", "/", "v", "3", "/", "t", "i", "c", "k", "e", "r", "/", "p", "r", "i", "c", "e", "?", "s", "y", "m", "b", "o", "l", "=", "B", "T", "C", "U", "S", "D", "T">>),
                           S(<<"B", "T", "C", "/", "U", "S", "D", "T", ":", " ", "$", "9", "5", ",", "1", "9", "5", " ", "(", "D", "e", "c", " ", "3", "0", ",", " ", "2", "0", "2", "4", " ", "1", "4", ":", "3", "0", " ", "U", "T", "C", ")">>)) >>)
  ELSE IF Lower(category) = S(<<"p", "o", "l", "i", "t", "i", "c", "s">>)
  THEN JList(<< DataSource(S(<<"a", "p", "_", "n", "e", "w", "s", ":", "e", "l", "e", "c", "t", "i", "o", "n", "_", "2", "0", "2", "4">>), S(<<"h", "t", "t", "p", "s", ":", "/", "/", "a", "p", "n", "e", "w", "s", ".", "c", "o", "m", "/", ".", ".", ".">>),
                           S(<<"M", "o", "c", "k", " ", "p", "o", "l", "i", "t", "i", "c", "a", "l", " ", "d", "a", "t", "a", " ", "f", "o", "r", " ", "t", "e", "s", "t", "i", "n", "g">>)) >>)
  ELSE JList(<< DataSource(S(<<"g", "e", "n", "e", "r", "i", "c", ":", "s", "o", "u", "r", "c", "e", "1">>), S(<<"h", "t", "t", "p", "s", ":", "/", "/", "e", "x", "a", "m", "p", "l", "e", ".", "c", "o", "m", "/", ".", ".", ".">>),
                           S(<<"M", "o", "c", "k", " ", "d", "a", "t", "a", " ", "f", "o", "r", " ">>) \o category \o S(<<" ", "c", "a", "t", "e", "g", "o", "r", "y">>)) >>)

\* {**metadata, "timestamp": ..., "market_id": ..., "category": ...}
ReportMetadata(metadata, timestamp, market_id, category) ==
  [metadata EXCEPT !.items =
     SetItem(SetItem(SetItem(@, S(<<"t", "i", "m", "e", "s", "t", "a", "m", "p">>), JInt(timestamp)),
                     S(<<"m", "a", "r", "k", "e", "t", "_", "i", "d">>), JStr(market_id)),
             S(<<"c", "a", "t", "e", "g", "o", "r", "y">>), JStr(category))]

\* the blob id of a simulated upload
SimulatedBlobId(evidence_bundle) ==
  S(<<"S", "I", "M", "U", "L", "A", "T", "E", "D", "_">>)
  \o TakePrefix(hexdigest(json_dumps(evidence_bundle, FALSE, DefaultItemSep, DefaultKeySep)), 32)

\* the dict create_tee_proof returns
TeeProofDict(p) ==
  JDict(<< <<S(<<"e", "n", "c", "l", "a", "v", "e", "_", "i", "d">>), JStr(p.enclave_id)>>,
           <<S(<<"e", "n", "c", "l", "a", "v", "e", "_", "p", "u", "b", "k", "e", "y">>), JStr(p.enclave_pubkey)>>,
           <<S(<<"m", "r", "e", "n", "c", "l", "a", "v", "e">>), JStr(p.mrenclave)>>,
           <<S(<<"s", "i", "g">>), JStr(p.sig)>>,
           <<S(<<"a", "t", "t", "e", "s", "t", "a", "t", "i", "o", "n">>), JStr(p.attestation)>>,
           <<S(<<"t", "i", "m", "e", "s", "t", "a", "m", "p">>), JInt(p.timestamp)>>,
           <<S(<<"n", "o", "n", "c", "e">>), JStr(p.nonce)>>,
           <<S(<<"h", "_", "i", "n">>), JStr(p.h_in)>>,
           <<S(<<"h", "_", "o", "u", "t">>), JStr(p.h_out)>>,
           <<S(<<"b", "l", "o", "b", "_", "i", "d">>), JStr(p.blob_id)>>,
           <<S(<<"b", "l", "o", "b", "_", "h", "a", "s", "h">>), JStr(p.blob_hash)>> >>)

\* step 6 of create_resolution_report: the final report
AssembleReport(round_number, inference_result, tee_proof) ==
  LET output == GetItem(inference_result, S(<<"o", "u", "t", "p", "u", "t">>))
      prompt_hash == GetItem(GetItem(inference_result, S(<<"m", "e", "t", "a", "d", "a", "t", "a">>)), S(<<"p", "r", "o", "m", "p", "t", "_", "h", "a", "s", "h">>))
      parser_hash == Ox \o hexdigest(S(<<"p", "a", "r", "s", "e", "r", "_", "v", "1">>))
      schema_hash ==
        Ox \o hexdigest(json_dumps(RESOLUTION_SCHEMA, FALSE, DefaultItemSep, DefaultKeySep))
  IN JDict(<< <<S(<<"r", "o", "u", "n", "d">>), JInt(round_number)>>,
              <<S(<<"t", "a", "s", "k">>), JStr(S(<<"b", "i", "n", "a", "r", "y">>))>>,
              <<S(<<"r", "e", "s", "o", "l", "u", "t", "i", "o", "n">>), GetItem(output, S(<<"r", "e", "s", "o", "l", "u", "t", "i", "o", "n">>))>>,
              <<S(<<"s", "o", "u", "r", "c", "e", "s">>), GetItem(output, S(<<"s", "o", "u", "r", "c", "e", "s">>))>>,
              <<S(<<"r", "a", "t", "i", "o", "n", "a", "l", "e">>), GetItem(output, S(<<"r", "a", "t", "i", "o", "n", "a", "l", "e">>))>>,
              <<S(<<"c", "o", "n", "t", "r", "o", "l", "s">>),
                JDict(<< <<S(<<"m", "o", "d", "e", "l", "_", "i", "d">>), JStr(GPT5_MODEL)>>,
                         <<S(<<"p", "r", "o", "m", "p", "t", "_", "h", "a", "s", "h">>), prompt_hash>>,
                         <<S(<<"p", "a", "r", "s", "e", "r", "_", "h", "a", "s", "h">>), JStr(parser_hash)>>,
                         <<S(<<"s", "c", "h", "e", "m", "a", "_", "h", "a", "s", "h">>), JStr(schema_hash)>> >>)>>,
              <<S(<<"t", "e", "e", "_", "p", "r", "o", "o", "f">>), TeeProofDict(tee_proof)>> >>)

-----------------------------------------------------------------------------
(* create_resolution_report, stage by stage (specification SpecReport).    *)
(* run is the reporter and its one call: pc is the stage to run next, or   *)
(* "returned" / "raised" when the call has ended; done lists the stages    *)
(* that completed; the other fields are the locals assigned so far.        *)
(* walrus holds the files the Walrus CLI stored.                           *)

\* the arguments of main()
ReportArgs ==
  [market_id : { S(<<"0", "x", "e", "5", "0", "c", "1", "c", "4", "6", "4", "6", "8", "a", "5", "1", "0", "e", "2", "b", "e", "f", "9", "e", "0", "5", "6", "e", "5", "2", "e", "e", "f", "5", "5", "2", "e", "d", "f", "0", "b", "0", "f", "f", "7", "f", "7", "4", "9", "0", "d", "9", "f", "6", "9", "5", "f", "1", "5", "1", "3", "9", "b", "4", "7", "0">>) },
   market_question : { S(<<"W", "i", "l", "l", " ", "B", "T", "C", " ", "r", "e", "a", "c", "h", " ", "$", "1", "0", "0", "k", " ", "b", "y", " ", "e", "n", "d", " ", "o", "f", " ", "2", "0", "2", "4", "?">>) },
   category : { S(<<"C", "r", "y", "p", "t", "o">>), S(<<"s", "p", "o", "r", "t", "s">>) },
   resolution_criteria :
     { S(<<"M", "a", "r", "k", "e", "t", " ", "r", "e", "s", "o", "l", "v", "e", "s", " ", "Y", "E", "S", " ", "i", "f", " ", "B", "i", "t", "c", "o", "i", "n", " ", "r", "e", "a", "c", "h", "e", "s", " ", "$", "1", "0", "0", ",", "0", "0", "0", " ", "U", "S", "D", " ", "o", "n", " ", "a", "n", "y", " ", "m", "a", "j", "o", "r", " ", "e", "x", "c", "h", "a", "n", "g", "e", " ", "(", "C", "o", "i", "n", "b", "a", "s", "e", ",", " ", "B", "i", "n", "a", "n", "c", "e", ",", " ", "K", "r", "a", "k", "e", "n", ")", " ", "b", "e", "f", "o", "r", "e", " ", "D", "e", "c", " ", "3", "1", ",", " ", "2", "0", "2", "4", " ", "2", "3", ":", "5", "9", ":", "5", "9", " ", "U", "T", "C", ".", " ", "P", "r", "i", "c", "e", " ", "m", "u", "s", "t", " ", "b", "e", " ", "s", "u", "s", "t", "a", "i", "n", "e", "d", " ", "f", "o", "r", " ", "a", "t", " ", "l", "e", "a", "s", "t", " ", "1", " ", "m", "i", "n", "u", "t", "e", ".">>) },
   round_number : { 12345 }]

\* outputs the provider may return as JSON text
ProviderOutputs ==
  LET resolution(v, c) ==
        <<S(<<"r", "e", "s", "o", "l", "u", "t", "i", "o", "n">>), DictOf(<< <<S(<<"v", "a", "l", "u", "e">>), v>>, <<S(<<"c", "o", "n", "f", "i", "d", "e", "n", "c", "e">>), c>> >>)>>
      source == DictOf(<< <<S(<<"i", "d">>), JStr(S(<<"s", "r", "c", ":", "a">>))>>, <<S(<<"u", "r", "l">>), JStr(S(<<"h", "t", "t", "p", "s", ":", "/", "/", "x">>))>>,
                          <<S(<<"q", "u", "o", "t", "e", "_", "h", "a", "s", "h">>), JStr(S(<<"0", "x", "a", "b", "c">>))>> >>)
      partial == DictOf(<< <<S(<<"i", "d">>), JStr(S(<<"s", "r", "c", ":", "a">>))>>, <<S(<<"u", "r", "l">>), JStr(S(<<"h", "t", "t", "p", "s", ":", "/", "/", "x">>))>> >>)
      sources(l) == <<S(<<"s", "o", "u", "r", "c", "e", "s">>), JList(l)>>
      rationale(t) == <<S(<<"r", "a", "t", "i", "o", "n", "a", "l", "e">>), JStr(t)>>
      text == S(<<"t", "h", "r", "e", "s", "h", "o", "l", "d", " ", "e", "x", "c", "e", "e", "d", "e", "d">>)
  IN { DictOf(<<resolution(JInt(1), JFloat(85)), sources(<<source>>), rationale(text)>>),
       DictOf(<<resolution(JInt(0), JInt(1)), sources(<<>>), rationale(<<>>)>>),
       DictOf(<<resolution(JBool(TRUE), JFloat(100)), sources(<<partial>>), rationale(text)>>),
       DictOf(<<resolution(JInt(1), JFloat(150)), sources(<<source>>), rationale(text)>>),
       DictOf(<<resolution(JInt(2), JFloat(85)), sources(<<source>>), rationale(text)>>),
       DictOf(<<resolution(JInt(1), JFloat(85)), sources(<<source>>)>>),
       DictOf(<<resolution(JInt(1), JNull), sources(<<source>>), rationale(text)>>),
       DictOf(<< <<S(<<"r", "e", "s", "o", "l", "u", "t", "i", "o", "n">>), JStr(S(<<"v", "a", "l", "u", "e", " ", "c", "o", "n", "f", "i", "d", "e", "n", "c", "e">>))>>, sources(<<source>>),
                 rationale(text)>>) }

\* what the chat completion call may give: an error (network, API), content
\* that is no JSON, or one of the outputs as JSON text
Responses ==
  { [error |-> TRUE, content |-> <<>>, total_tokens |-> 0, finish_reason |-> <<>>],
    [error |-> FALSE, content |-> S(<<"I", " ", "c", "a", "n", "n", "o", "t", " ", "a", "n", "s", "w", "e", "r">>), total_tokens |-> 321,
     finish_reason |-> S(<<"s", "t", "o", "p">>)] }
  \cup { [error |-> FALSE,
          content |-> json_dumps(o, FALSE, DefaultItemSep, DefaultKeySep),
          total_tokens |-> 321, finish_reason |-> S(<<"s", "t", "o", "p">>)] : o \in ProviderOutputs }

\* what running `walrus store` may meet
CliOutcomes ==
  { [launched |-> FALSE, returncode |-> 0, stdout |-> <<>>],
    [launched |-> TRUE, returncode |-> 1, stdout |-> <<>>],
    [launched |-> TRUE, returncode |-> 0,
     stdout |-> Lines(<<S(<<"S", "u", "c", "c", "e", "s", "s", ":", " ", "s", "t", "o", "r", "e", "d">>), S(<<"B", "l", "o", "b", " ", "I", "D", ":", " ", "C", "u", "7", "K", "D", "1", "o", "8", "b", "w", "u", "W", "-", "r", "C", "V", "i", "h", "j", "4", "0", "N", "u">>), <<>> >>)],
    [launched |-> TRUE, returncode |-> 0, stdout |-> Lines(<<S(<<"S", "u", "c", "c", "e", "s", "s", ":", " ", "s", "t", "o", "r", "e", "d">>), <<>> >>)],
    [launched |-> TRUE, returncode |-> 0, stdout |-> Lines(<<S(<<"B", "l", "o", "b", " ", "I", "D", ":", " ", " ">>), <<>> >>)] }

Stages == <<"collect", "infer", "validate", "bundle", "upload", "proof", "assemble">>

\* run after a stage completed: its locals are added, pc moves on
Advance(stage, next, locals) ==
  run' = ([pc |-> next, done |-> Append(run.done, stage)] @@ locals) @@ run

\* run after an exception left the call
RaiseFrom(error, locals) ==
  run' = ([pc |-> "raised", error |-> error] @@ locals) @@ run

NewReporter ==
  /\ run.pc = "idle"
  /\ \E enable \in BOOLEAN, pk \in PrivateKeys :
       run' = [pc |-> "ready", self |-> TEEReporter(S(<<"t", "e", "s", "t", "_", "k", "e", "y">>), None, enable, pk)]
  /\ UNCHANGED <<gens, ret, pair, walrus, tempfiles>>

CreateResolutionReport ==
  /\ run.pc = "ready"
  /\ \E args \in ReportArgs :
       run' = [pc |-> "collect", done |-> <<>>, args |-> args] @@ run
  /\ UNCHANGED <<gens, ret, pair, walrus, tempfiles>>

\* step 1: collect data from sources
StepCollect ==
  /\ run.pc = "collect"
  /\ Advance("collect", "infer",
             [sources |-> collect_data_sources(run.self, run.args.market_question,
                                               run.args.category)])
  /\ UNCHANGED <<gens, ret, pair, walrus, tempfiles>>

\* step 2: run the inference
StepInfer ==
  /\ run.pc = "infer"
  /\ \E response \in Responses :
       LET inference_result ==
             infer(run.self.gpt5, run.args.market_question, run.sources,
                   run.args.resolution_criteria, response)
       IN IF inference_result = JRaise
          THEN RaiseFrom("RuntimeError", [response |-> response])
          ELSE Advance("infer", "validate",
                       [response |-> response, inference_result |-> inference_result])
  /\ UNCHANGED <<gens, ret, pair, walrus, tempfiles>>

\* validate the output
StepValidate ==
  /\ run.pc = "validate"
  /\ LET is_valid == validate_output(run.self.gpt5, GetItem(run.inference_result, S(<<"o", "u", "t", "p", "u", "t">>)))
     IN CASE is_valid = "True" -> Advance("validate", "bundle", [is_valid |-> is_valid])
          [] is_valid = "False" -> RaiseFrom("ValueError", [is_valid |-> is_valid])
          [] OTHER -> RaiseFrom(is_valid, [is_valid |-> is_valid])
  /\ UNCHANGED <<gens, ret, pair, walrus, tempfiles>>

\* step 3: create the evidence bundle
StepBundle ==
  /\ run.pc = "bundle"
  /\ \E timestamp \in Timestamps :
       LET metadata == ReportMetadata(GetItem(run.inference_result, S(<<"m", "e", "t", "a", "d", "a", "t", "a">>)), timestamp,
                                      run.args.market_id, run.args.category)
       IN Advance("bundle", "upload",
                  [timestamp |-> timestamp,
                   evidence_bundle |->
                     create_evidence_bundle(run.self.walrus,
                                            GetItem(run.inference_result, S(<<"i", "n", "p", "u", "t">>)),
                                            GetItem(run.inference_result, S(<<"o", "u", "t", "p", "u", "t">>)),
                                            metadata)])
  /\ UNCHANGED <<gens, ret, pair, tempfiles>>
  /\ UNCHANGED walrus

\* step 4 that uploads whatever enable_walrus_upload says
StepUpload_ignoring_flag ==
  /\ run.pc = "upload"
  /\ \E cli \in CliOutcomes :
       LET up == upload_to_walrus(run.self.walrus, run.evidence_bundle, cli)
       IN /\ walrus' = IF cli.launched /\ cli.returncode = 0
                       THEN Append(walrus, UploadFile(run.evidence_bundle))
                       ELSE walrus
          /\ IF up.raised # ""
             THEN RaiseFrom(up.raised, [cli |-> cli])
             ELSE Advance("upload", "proof",
                          [cli |-> cli, blob_id |-> up.blob_id,
                           blob_hash |-> up.blob_hash])
  /\ UNCHANGED <<gens, ret, pair, tempfiles>>

\* step 4: upload to Walrus, or simulate the upload
StepUpload ==
  /\ run.pc = "upload"
  /\ IF run.self.enable_walrus_upload
     THEN \E cli \in CliOutcomes :
            LET up == upload_to_walrus(run.self.walrus, run.evidence_bundle, cli)
            IN /\ walrus' = IF cli.launched /\ cli.returncode = 0
                            THEN Append(walrus, UploadFile(run.evidence_bundle))
                            ELSE walrus
               /\ IF up.raised # ""
                  THEN RaiseFrom(up.raised, [cli |-> cli])
                  ELSE Advance("upload", "proof",
                               [cli |-> cli, blob_id |-> up.blob_id,
                                blob_hash |-> up.blob_hash])
     ELSE /\ Advance("upload", "proof",
                     [blob_id |-> SimulatedBlobId(run.evidence_bundle),
                      blob_hash |-> hash_bundle(run.self.walrus, run.evidence_bundle)])
          /\ UNCHANGED walrus
  /\ UNCHANGED <<gens, ret, pair, tempfiles>>

\* step 5: generate the TEE proof
StepProof ==
  /\ run.pc = "proof"
  /\ \E time \in Timestamps, time2 \in Timestamps,
        nonce \in RandomBytes, mrsigner \in RandomBytes, k \in SignSecrets :
       /\ run.timestamp <= time
       /\ time <= time2
       /\ Advance("proof", "assemble",
                  [tee_proof |->
                     create_tee_proof(run.self.tee_signer,
                                      GetItem(run.inference_result, S(<<"i", "n", "p", "u", "t">>)),
                                      GetItem(run.inference_result, S(<<"o", "u", "t", "p", "u", "t">>)),
                                      run.blob_id, run.blob_hash,
                                      [time |-> time, time2 |-> time2, nonce |-> nonce,
                                       mrsigner |-> mrsigner, k |-> k]).tee_proof])
  /\ UNCHANGED <<gens, ret, pair, walrus, tempfiles>>

\* step 6: assemble the final report and return it
StepAssemble ==
  /\ run.pc = "assemble"
  /\ run' = [pc |-> "returned", done |-> Append(run.done, "assemble"),
             final_report |-> AssembleReport(run.args.round_number, run.inference_result,
                                             run.tee_proof)] @@ run
  /\ UNCHANGED <<gens, ret, pair, walrus, tempfiles>>

NextReport ==
  \/ NewReporter
  \/ CreateResolutionReport
  \/ StepCollect
  \/ StepInfer
  \/ StepValidate
  \/ StepBundle
  \/ StepUpload
  \/ StepProof
  \/ StepAssemble

SpecReport == Init /\ [][NextReport]_vars

-----------------------------------------------------------------------------
(* Claims about create_resolution_report (specification SpecReport)        *)

\* the JSON type names of a schema
HasJsonType(v, type) ==
  CASE type = S(<<"o", "b", "j", "e", "c", "t">>) -> v.t = "dict"
    [] type = S(<<"a", "r", "r", "a", "y">>) -> v.t = "list"
    [] type = S(<<"s", "t", "r", "i", "n", "g">>) -> v.t = "str"
    [] type = S(<<"i", "n", "t", "e", "g", "e", "r">>) -> v.t = "int"
    [] type = S(<<"n", "u", "m", "b", "e", "r">>) -> v.t \in {"int", "float"}
    [] OTHER -> FALSE

\* v is valid against schema: type, enum, minimum, maximum, required,
\* properties and items, as RESOLUTION_SCHEMA uses them
RECURSIVE Conforms(_, _)
Conforms(v, schema) ==
  /\ HasKey(schema, S(<<"t", "y", "p", "e">>)) => HasJsonType(v, GetItem(schema, S(<<"t", "y", "p", "e">>)).s)
  /\ HasKey(schema, S(<<"e", "n", "u", "m">>)) =>
       \E i \in DOMAIN GetItem(schema, S(<<"e", "n", "u", "m">>)).items : GetItem(schema, S(<<"e", "n", "u", "m">>)).items[i].v = v
  /\ (HasKey(schema, S(<<"m", "i", "n", "i", "m", "u", "m">>)) /\ IsReal(v)) =>
       RealValue(GetItem(schema, S(<<"m", "i", "n", "i", "m", "u", "m">>))) <= RealValue(v)
  /\ (HasKey(schema, S(<<"m", "a", "x", "i", "m", "u", "m">>)) /\ IsReal(v)) =>
       RealValue(v) <= RealValue(GetItem(schema, S(<<"m", "a", "x", "i", "m", "u", "m">>)))
  /\ (HasKey(schema, S(<<"r", "e", "q", "u", "i", "r", "e", "d">>)) /\ v.t = "dict") =>
       \A i \in DOMAIN GetItem(schema, S(<<"r", "e", "q", "u", "i", "r", "e", "d">>)).items :
         HasKey(v, GetItem(schema, S(<<"r", "e", "q", "u", "i", "r", "e", "d">>)).items[i].v.s)
  /\ (HasKey(schema, S(<<"p", "r", "o", "p", "e", "r", "t", "i", "e", "s">>)) /\ v.t = "dict") =>
       \A i \in DOMAIN v.items :
         HasKey(GetItem(schema, S(<<"p", "r", "o", "p", "e", "r", "t", "i", "e", "s">>)), v.items[i].k) =>
           Conforms(v.items[i].v, GetItem(GetItem(schema, S(<<"p", "r", "o", "p", "e", "r", "t", "i", "e", "s">>)), v.items[i].k))
  /\ (HasKey(schema, S(<<"i", "t", "e", "m", "s">>)) /\ v.t = "list") =>
       \A i \in DOMAIN v.items : Conforms(v.items[i].v, GetItem(schema, S(<<"i", "t", "e", "m", "s">>)))

\* the full report schema: RESOLUTION_SCHEMA, sources not empty and each
\* with non-empty id, url and quote_hash, rationale not empty, the four
\* controls not empty
FullReportSchema(report) ==
  /\ Conforms(report, RESOLUTION_SCHEMA)
  /\ GetItem(report, S(<<"s", "o", "u", "r", "c", "e", "s">>)).items # <<>>
  /\ \A i \in DOMAIN GetItem(report, S(<<"s", "o", "u", "r", "c", "e", "s">>)).items :
       SourceComplete(GetItem(report, S(<<"s", "o", "u", "r", "c", "e", "s">>)).items[i].v)
  /\ GetItem(report, S(<<"r", "a", "t", "i", "o", "n", "a", "l", "e">>)).s # <<>>
  /\ \A i \in DOMAIN GetItem(report, S(<<"c", "o", "n", "t", "r", "o", "l", "s">>)).items :
       GetItem(report, S(<<"c", "o", "n", "t", "r", "o", "l", "s">>)).items[i].v.s # <<>>

\* C13: every report create_resolution_report returns satisfies the full
\* report schema (an assembled report that fails the check is never returned)
C13_ReturnedReportPassesSchema ==
  run.pc = "returned" => FullReportSchema(run.final_report)

\* C14: every report create_resolution_report returns has task "binary",
\* resolution.confidence in [0,1] and resolution.value in {0,1}
C14_ReturnedResolutionInRange ==
  run.pc = "returned" =>
    LET resolution == GetItem(run.final_report, S(<<"r", "e", "s", "o", "l", "u", "t", "i", "o", "n">>))
    IN /\ GetItem(run.final_report, S(<<"t", "a", "s", "k">>)) = JStr(S(<<"b", "i", "n", "a", "r", "y">>))
       /\ IsReal(GetItem(resolution, S(<<"c", "o", "n", "f", "i", "d", "e", "n", "c", "e">>)))
       /\ RealValue(GetItem(resolution, S(<<"c", "o", "n", "f", "i", "d", "e", "n", "c", "e">>))) \in 0..100
       /\ IsZeroOrOne(GetItem(resolution, S(<<"v", "a", "l", "u", "e">>)))

\* a report was returned
W14_ReportReturned ==
  /\ run.pc = "returned"
  /\ GetItem(GetItem(run.final_report, S(<<"r", "e", "s", "o", "l", "u", "t", "i", "o", "n">>)), S(<<"c", "o", "n", "f", "i", "d", "e", "n", "c", "e">>)) = JFloat(85)

\* the call of the provider failed or its content is no JSON
InferenceFailed == run.response.error \/ json_loads(run.response.content) = JRaise

\* the upload failed: no CLI, a non-zero exit, or no blob id in its output
UploadFailed ==
  ~run.cli.launched \/ run.cli.returncode # 0 \/ ExtractBlobId(run.cli.stdout) = <<>>

\* C15: the stages of create_resolution_report run in order, each after its
\* predecessor succeeded; a failed inference, a rejected output or a failed
\* upload ends the call with an error and without a report; a report is
\* returned only after all seven stages
C15_StagesInOrderAllOrNothing ==
  run.pc \notin {"idle", "ready"} =>
    /\ run.done = SubSeq(Stages, 1, Len(run.done))
    /\ run.pc \notin {"returned", "raised"} => run.pc = Stages[Len(run.done) + 1]
    /\ ("response" \in DOMAIN run /\ InferenceFailed) =>
         run.pc = "raised" /\ Len(run.done) = 1
    /\ ("is_valid" \in DOMAIN run /\ run.is_valid # "True") =>
         run.pc = "raised" /\ Len(run.done) = 2
    /\ ("cli" \in DOMAIN run /\ UploadFailed) =>
         run.pc = "raised" /\ Len(run.done) = 4
    /\ run.pc = "raised" => "final_report" \notin DOMAIN run
    /\ run.pc = "returned" => run.done = Stages /\ "final_report" \in DOMAIN run
    /\ "final_report" \in DOMAIN run => run.pc = "returned"

\* a failed upload ended the call after four stages
W15_UploadFailureRaised ==
  /\ run.pc = "raised"
  /\ "cli" \in DOMAIN run
  /\ run.cli.returncode = 1
  /\ run.done = <<"collect", "infer", "validate", "bundle">>

\* C16: nothing is stored on Walrus by a call that ends with an error
C16_NothingStoredWhenRaised ==
  run.pc = "raised" => walrus = <<>>

-----------------------------------------------------------------------------
(* seal_encryptor.py                                                       *)

\* a byte XORed with a digest byte that the model keeps symbolic
SymXor == 259

RECURSIVE BitXor(_, _)
BitXor(a, b) ==
  IF a = 0 THEN b
  ELSE IF b = 0 THEN a
  ELSE 2 * BitXor(a \div 2, b \div 2) + ((a + b) % 2)

\* b ^ k on bytes: x ^ 0 = x, x ^ x = 0, (x ^ k) ^ k = x
XorByte(b, k) ==
  IF k = <<0>> THEN b
  ELSE IF b = <<0>> THEN k
  ELSE IF b = k THEN <<0>>
  ELSE IF Len(b) = 3 /\ b[3] = k THEN b[2]
  ELSE IF Len(b) = 3 /\ b[2] = k THEN b[3]
  ELSE IF Len(b) = 1 /\ Len(k) = 1 THEN <<BitXor(b[1], k[1])>>
  ELSE <<SymXor, b, k>>

\* for i in range(len(data)): data[i] ^= key[i % len(key)]
XorWithKey(data, key) ==
  [i \in DOMAIN data |-> XorByte(data[i], key[((i - 1) % Len(key)) + 1])]

\* bytes.decode('utf-8'): ASCII bytes are their own code points; a byte that
\* is not a concrete ASCII byte makes the text undecodable (UnicodeDecodeError)
IsAscii(b) == Len(b) = 1 /\ b[1] < 128

Decodable(bytes) == \A i \in DOMAIN bytes : IsAscii(bytes[i])

SealConfig(seal_package_id, seal_policy_id, threshold, key_servers) ==
  [seal_package_id |-> seal_package_id, seal_policy_id |-> seal_policy_id,
   threshold |-> threshold, key_servers |-> key_servers]

SealEncryptor(config) == [config |-> config]

SEAL_HEADER == S(<<"S", "E", "A", "L", "_", "E", "N", "C", "_", "V", "1", ":">>)

\* sha256(f"{self.config.seal_policy_id}:{market_id}".encode()).digest()
SealKey(self, market_id) ==
  sha256(self.config.seal_policy_id \o S(<<":">>) \o market_id)

\* the summary built from every field of the evidence but reasoning and sources
_create_public_summary_by_exclusion(self, full_evidence, market_id) ==
  LET kept == SelectSeq(full_evidence.items,
                        LAMBDA e : e.k # S(<<"r", "e", "a", "s", "o", "n", "i", "n", "g">>) /\ e.k # S(<<"s", "o", "u", "r", "c", "e", "s">>))
  IN [full_evidence EXCEPT !.items =
        <<[k |-> S(<<"m", "a", "r", "k", "e", "t", "_", "i", "d">>), v |-> JStr(market_id)]>> \o kept]

\* the summary that tells whether the evidence holds reasoning
_create_public_summary_flagging_reasoning(self, full_evidence, market_id) ==
  LET tee == GetOr(full_evidence, S(<<"t", "e", "e", "_", "a", "t", "t", "e", "s", "t", "a", "t", "i", "o", "n">>), JDict(<<>>))
  IN IF tee.t # "dict" THEN JRaise
     ELSE JDict(<< <<S(<<"m", "a", "r", "k", "e", "t", "_", "i", "d">>), JStr(market_id)>>,
                   <<S(<<"o", "u", "t", "c", "o", "m", "e">>), GetOr(full_evidence, S(<<"o", "u", "t", "c", "o", "m", "e">>), JNull)>>,
                   <<S(<<"r", "e", "s", "o", "l", "u", "t", "i", "o", "n", "_", "d", "a", "t", "e">>),
                     GetOr(full_evidence, S(<<"r", "e", "s", "o", "l", "u", "t", "i", "o", "n", "_", "d", "a", "t", "e">>), JNull)>>,
                   <<S(<<"o", "r", "a", "c", "l", "e", "_", "v", "e", "r", "s", "i", "o", "n">>), GetOr(tee, S(<<"v", "e", "r", "s", "i", "o", "n">>), JStr(S(<<"1", ".", "0">>)))>>,
                   <<S(<<"e", "v", "i", "d", "e", "n", "c", "e", "_", "t", "y", "p", "e">>), JStr(S(<<"p", "u", "b", "l", "i", "c", "_", "s", "u", "m", "m", "a", "r", "y">>))>>,
                   <<S(<<"p", "r", "e", "m", "i", "u", "m", "_", "a", "v", "a", "i", "l", "a", "b", "l", "e">>), JBool(HasKey(full_evidence, S(<<"r", "e", "a", "s", "o", "n", "i", "n", "g">>)))>>,
                   <<S(<<"m", "e", "s", "s", "a", "g", "e">>),
                     JStr(S(<<"F", "u", "l", "l", " ", "r", "e", "a", "s", "o", "n", "i", "n", "g", " ", "a", "n", "d", " ", "s", "o", "u", "r", "c", "e", "s", " ", "a", "v", "a", "i", "l", "a", "b", "l", "e", " ", "f", "o", "r", " ", "p", "r", "e", "m", "i", "u", "m", " ", "s", "u", "b", "s", "c", "r", "i", "b", "e", "r", "s">>))>> >>)

\* the public summary, or JRaise for the AttributeError of .get on a value
\* that is not a dict
_create_public_summary(self, full_evidence, market_id) ==
  LET tee == GetOr(full_evidence, S(<<"t", "e", "e", "_", "a", "t", "t", "e", "s", "t", "a", "t", "i", "o", "n">>), JDict(<<>>))
  IN IF tee.t # "dict" THEN JRaise
     ELSE JDict(<< <<S(<<"m", "a", "r", "k", "e", "t", "_", "i", "d">>), JStr(market_id)>>,
                   <<S(<<"o", "u", "t", "c", "o", "m", "e">>), GetOr(full_evidence, S(<<"o", "u", "t", "c", "o", "m", "e">>), JNull)>>,
                   <<S(<<"r", "e", "s", "o", "l", "u", "t", "i", "o", "n", "_", "d", "a", "t", "e">>),
                     GetOr(full_evidence, S(<<"r", "e", "s", "o", "l", "u", "t", "i", "o", "n", "_", "d", "a", "t", "e">>), JNull)>>,
                   <<S(<<"o", "r", "a", "c", "l", "e", "_", "v", "e", "r", "s", "i", "o", "n">>), GetOr(tee, S(<<"v", "e", "r", "s", "i", "o", "n">>), JStr(S(<<"1", ".", "0">>)))>>,
                   <<S(<<"e", "v", "i", "d", "e", "n", "c", "e", "_", "t", "y", "p", "e">>), JStr(S(<<"p", "u", "b", "l", "i", "c", "_", "s", "u", "m", "m", "a", "r", "y">>))>>,
                   <<S(<<"p", "r", "e", "m", "i", "u", "m", "_", "a", "v", "a", "i", "l", "a", "b", "l", "e">>), JBool(TRUE)>>,
                   <<S(<<"m", "e", "s", "s", "a", "g", "e">>),
                     JStr(S(<<"F", "u", "l", "l", " ", "r", "e", "a", "s", "o", "n", "i", "n", "g", " ", "a", "n", "d", " ", "s", "o", "u", "r", "c", "e", "s", " ", "a", "v", "a", "i", "l", "a", "b", "l", "e", " ", "f", "o", "r", " ", "p", "r", "e", "m", "i", "u", "m", " ", "s", "u", "b", "s", "c", "r", "i", "b", "e", "r", "s">>))>> >>)

_simulate_seal_encryption(self, data, market_id) ==
  SEAL_HEADER \o XorWithKey(data, SealKey(self, market_id))

\* encryption whose content_hash is taken over the encrypted blob
encrypt_evidence_hashing_blob(self, full_evidence, market_id) ==
  LET public_summary == _create_public_summary(self, full_evidence, market_id)
      evidence_bytes == json_dumps_indent(full_evidence, 2, 0)
      encrypted_blob == _simulate_seal_encryption(self, evidence_bytes, market_id)
      encryption_metadata ==
        JDict(<< <<S(<<"s", "e", "a", "l", "_", "p", "a", "c", "k", "a", "g", "e", "_", "i", "d">>), JStr(self.config.seal_package_id)>>,
                 <<S(<<"s", "e", "a", "l", "_", "p", "o", "l", "i", "c", "y", "_", "i", "d">>), JStr(self.config.seal_policy_id)>>,
                 <<S(<<"t", "h", "r", "e", "s", "h", "o", "l", "d">>), JInt(self.config.threshold)>>,
                 <<S(<<"k", "e", "y", "_", "s", "e", "r", "v", "e", "r", "s">>),
                   JList([i \in DOMAIN self.config.key_servers |->
                            JStr(self.config.key_servers[i])])>>,
                 <<S(<<"e", "n", "c", "r", "y", "p", "t", "e", "d", "_", "s", "i", "z", "e", "_", "b", "y", "t", "e", "s">>), JInt(Len(encrypted_blob))>>,
                 <<S(<<"o", "r", "i", "g", "i", "n", "a", "l", "_", "s", "i", "z", "e", "_", "b", "y", "t", "e", "s">>), JInt(Len(evidence_bytes))>>,
                 <<S(<<"e", "n", "c", "r", "y", "p", "t", "i", "o", "n", "_", "m", "e", "t", "h", "o", "d">>), JStr(S(<<"S", "e", "a", "l", "-", "T", "h", "r", "e", "s", "h", "o", "l", "d", "-", "A", "E", "S", "-", "G", "C", "M", " ", "(", "s", "i", "m", "u", "l", "a", "t", "e", "d", ")">>))>>,
                 <<S(<<"c", "o", "n", "t", "e", "n", "t", "_", "h", "a", "s", "h">>), JStr(hexdigest(encrypted_blob))>> >>)
  IN IF public_summary = JRaise
     THEN [raised |-> "AttributeError", encrypted_blob |-> <<>>,
           public_summary |-> JRaise, seal_policy_id |-> <<>>,
           encryption_metadata |-> JRaise]
     ELSE [raised |-> "", encrypted_blob |-> encrypted_blob,
           public_summary |-> public_summary,
           seal_policy_id |-> self.config.seal_policy_id,
           encryption_metadata |-> encryption_metadata]

\* the EncryptedEvidence, or the exception that left the call
encrypt_evidence(self, full_evidence, market_id) ==
  LET public_summary == _create_public_summary(self, full_evidence, market_id)
      evidence_bytes == json_dumps_indent(full_evidence, 2, 0)
      encrypted_blob == _simulate_seal_encryption(self, evidence_bytes, market_id)
      encryption_metadata ==
        JDict(<< <<S(<<"s", "e", "a", "l", "_", "p", "a", "c", "k", "a", "g", "e", "_", "i", "d">>), JStr(self.config.seal_package_id)>>,
                 <<S(<<"s", "e", "a", "l", "_", "p", "o", "l", "i", "c", "y", "_", "i", "d">>), JStr(self.config.seal_policy_id)>>,
                 <<S(<<"t", "h", "r", "e", "s", "h", "o", "l", "d">>), JInt(self.config.threshold)>>,
                 <<S(<<"k", "e", "y", "_", "s", "e", "r", "v", "e", "r", "s">>),
                   JList([i \in DOMAIN self.config.key_servers |->
                            JStr(self.config.key_servers[i])])>>,
                 <<S(<<"e", "n", "c", "r", "y", "p", "t", "e", "d", "_", "s", "i", "z", "e", "_", "b", "y", "t", "e", "s">>), JInt(Len(encrypted_blob))>>,
                 <<S(<<"o", "r", "i", "g", "i", "n", "a", "l", "_", "s", "i", "z", "e", "_", "b", "y", "t", "e", "s">>), JInt(Len(evidence_bytes))>>,
                 <<S(<<"e", "n", "c", "r", "y", "p", "t", "i", "o", "n", "_", "m", "e", "t", "h", "o", "d">>), JStr(S(<<"S", "e", "a", "l", "-", "T", "h", "r", "e", "s", "h", "o", "l", "d", "-", "A", "E", "S", "-", "G", "C", "M", " ", "(", "s", "i", "m", "u", "l", "a", "t", "e", "d", ")">>))>>,
                 <<S(<<"c", "o", "n", "t", "e", "n", "t", "_", "h", "a", "s", "h">>), JStr(hexdigest(evidence_bytes))>> >>)
  IN IF public_summary = JRaise
     THEN [raised |-> "AttributeError", encrypted_blob |-> <<>>,
           public_summary |-> JRaise, seal_policy_id |-> <<>>,
           encryption_metadata |-> JRaise]
     ELSE [raised |-> "", encrypted_blob |-> encrypted_blob,
           public_summary |-> public_summary,
           seal_policy_id |-> self.config.seal_policy_id,
           encryption_metadata |-> encryption_metadata]

IsPrefix(prefix, bytes) ==
  /\ Len(bytes) >= Len(prefix)
  /\ SubSeq(bytes, 1, Len(prefix)) = prefix

\* decryption that strips twelve bytes whatever they are
decrypt_evidence_any_header(self, encrypted_blob, market_id) ==
  LET decrypted == XorWithKey(SubSeq(encrypted_blob, 13, Len(encrypted_blob)),
                              SealKey(self, market_id))
  IN IF Decodable(decrypted) THEN json_loads(decrypted) ELSE JRaise

\* the decrypted evidence, or JRaise for the ValueError of a blob without the
\* header, of undecodable bytes (UnicodeDecodeError) and of text that is not
\* JSON (JSONDecodeError)
decrypt_evidence(self, encrypted_blob, market_id) ==
  IF ~IsPrefix(SEAL_HEADER, encrypted_blob) THEN JRaise
  ELSE LET decrypted == XorWithKey(SubSeq(encrypted_blob, 13, Len(encrypted_blob)),
                                   SealKey(self, market_id))
       IN IF Decodable(decrypted) THEN json_loads(decrypted) ELSE JRaise

-----------------------------------------------------------------------------
(* One encryptor, the evidence it seals and the blobs handed back to it    *)
(* (specification SpecSeal): ret holds the call and what it gave.          *)

\* the configuration of the module's example: 2 of 3 key servers
ExampleSealConfig ==
  SealConfig(S(<<"0", "x", "1", "2", "3", "4">>), S(<<"0", "x", "5", "6", "7", "8">>), 2, <<S(<<"k", "s", "-", "1">>), S(<<"k", "s", "-", "2">>), S(<<"k", "s", "-", "3">>)>>)

SealMarketIds == { S(<<"0", "x", "m", "1">>), S(<<"0", "x", "m", "2">>) }

\* tee_attestation: absent, a mapping with and without a version, null, and
\* values that are not mappings
TeeAttestations ==
  { <<>> } \cup
  { <<S(<<"t", "e", "e", "_", "a", "t", "t", "e", "s", "t", "a", "t", "i", "o", "n">>), v>> :
      v \in { JDict(<< <<S(<<"v", "e", "r", "s", "i", "o", "n">>), JStr(S(<<"2", ".", "0">>))>> >>), JDict(<<>>), JNull,
              JStr(S(<<"s", "g", "x">>)), JList(<<JInt(1)>>) } }

SealEvidences ==
  { DictOf(<<o, t, r, x>>) :
      o \in { <<>>, <<S(<<"o", "u", "t", "c", "o", "m", "e">>), JStr(S(<<"Y", "E", "S">>))>> },
      t \in TeeAttestations,
      r \in { <<>>, <<S(<<"r", "e", "a", "s", "o", "n", "i", "n", "g">>), JStr(S(<<"B", "T", "C", " ", ">", " ", "$", "1", "0", "0", "k">>))>> },
      x \in { <<>>, <<S(<<"c", "o", "n", "f", "i", "d", "e", "n", "c", "e">>), JFloat(85)>>,
               <<S(<<"s", "o", "u", "r", "c", "e", "s">>), JList(<<JStr(S(<<"a", "p">>))>>)>> } }

\* what may come back for decryption: the blob itself, the blob under another
\* tag, without a tag, cut inside the tag, and nothing
PresentedBlobs(blob) ==
  LET body == SubSeq(blob, Len(SEAL_HEADER) + 1, Len(blob))
  IN { blob, S(<<"S", "E", "A", "L", "_", "E", "N", "C", "_", "V", "2", ":">>) \o body, body, SubSeq(blob, 1, 5), <<>> }

EncryptEvidence ==
  /\ Idle
  /\ \E full_evidence \in SealEvidences, market_id \in SealMarketIds :
       ret' = [op |-> "encrypt_evidence", self |-> SealEncryptor(ExampleSealConfig),
               full_evidence |-> full_evidence, market_id |-> market_id,
               result |-> encrypt_evidence(SealEncryptor(ExampleSealConfig),
                                           full_evidence, market_id)]
  /\ UNCHANGED <<gens, pair, run, walrus, tempfiles>>

\* a caller holding `shares` key shares of the policy hands a blob back;
\* decrypt_evidence has no parameter for the shares
DecryptEvidence ==
  /\ ret.op = "encrypt_evidence"
  /\ ret.result.raised = ""
  /\ \E encrypted_blob \in PresentedBlobs(ret.result.encrypted_blob),
        market_id \in SealMarketIds,
        shares \in 0..Len(ret.self.config.key_servers) :
       ret' = [op |-> "decrypt_evidence", self |-> ret.self,
               full_evidence |-> ret.full_evidence, sealed_for |-> ret.market_id,
               sealed_blob |-> ret.result.encrypted_blob,
               encrypted_blob |-> encrypted_blob, market_id |-> market_id,
               shares |-> shares,
               result |-> decrypt_evidence(ret.self, encrypted_blob, market_id)]
  /\ UNCHANGED <<gens, pair, run, walrus, tempfiles>>

\* the same encryptor seals a second evidence for the same market
EncryptOther ==
  /\ ret.op = "encrypt_evidence"
  /\ \E other_evidence \in SealEvidences :
       ret' = [op |-> "encrypt_both", self |-> ret.self, market_id |-> ret.market_id,
               full_evidence |-> ret.full_evidence, result |-> ret.result,
               other_evidence |-> other_evidence,
               other_result |-> encrypt_evidence(ret.self, other_evidence, ret.market_id)]
  /\ UNCHANGED <<gens, pair, run, walrus, tempfiles>>

NextSeal == EncryptEvidence \/ DecryptEvidence \/ EncryptOther \/ Return

SpecSeal == Init /\ [][NextSeal]_vars

-----------------------------------------------------------------------------
(* Claims about encrypt_evidence and decrypt_evidence (specification       *)
(* SpecSeal)                                                               *)

\* C17: encrypt_evidence fails on no evidence mapping, and decrypt_evidence
\* of the blob it produced, under the same market id, gives the evidence back
C17_EncryptDecryptRoundTrip ==
  /\ ret.op = "encrypt_evidence" => ret.result.raised = ""
  /\ (ret.op = "decrypt_evidence" /\ ret.encrypted_blob = ret.sealed_blob
        /\ ret.market_id = ret.sealed_for)
       => ret.result = ret.full_evidence

\* the round trip alone, for the evidence that encrypt_evidence accepts
RoundTripWhenEncrypted ==
  (ret.op = "decrypt_evidence" /\ ret.encrypted_blob = ret.sealed_blob
     /\ ret.market_id = ret.sealed_for)
    => ret.result = ret.full_evidence

\* the key shares of the caller satisfy the policy of the encryptor
SatisfiesThreshold(shares, self) == shares >= self.config.threshold

\* C18: decrypt_evidence gives the plaintext only to a caller whose key
\* material satisfies the threshold of the policy; any other caller gets a
\* failure and no plaintext
C18_PlaintextOnlyWithThresholdKeys ==
  (ret.op = "decrypt_evidence" /\ ~SatisfiesThreshold(ret.shares, ret.self))
    => ret.result = JRaise

\* C19: every blob of encrypt_evidence begins with the tag SEAL_ENC_V1:, and
\* decrypt_evidence fails, giving no evidence, on every blob that does not
C19_TagWrittenAndRequired ==
  /\ (ret.op = "encrypt_evidence" /\ ret.result.raised = "")
       => IsPrefix(S(<<"S", "E", "A", "L", "_", "E", "N", "C", "_", "V", "1", ":">>), ret.result.encrypted_blob)
  /\ (ret.op = "decrypt_evidence" /\ ~IsPrefix(S(<<"S", "E", "A", "L", "_", "E", "N", "C", "_", "V", "1", ":">>), ret.encrypted_blob))
       => ret.result = JRaise

\* a blob under the tag SEAL_ENC_V2:, sealed for the presented market id, was
\* rejected
W19_OtherTagRejected ==
  /\ ret.op = "decrypt_evidence"
  /\ IsPrefix(S(<<"S", "E", "A", "L", "_", "E", "N", "C", "_", "V", "2", ":">>), ret.encrypted_blob)
  /\ ret.market_id = ret.sealed_for
  /\ ret.result = JRaise

SummaryAllowList ==
  { S(<<"m", "a", "r", "k", "e", "t", "_", "i", "d">>), S(<<"o", "u", "t", "c", "o", "m", "e">>), S(<<"r", "e", "s", "o", "l", "u", "t", "i", "o", "n", "_", "d", "a", "t", "e">>), S(<<"o", "r", "a", "c", "l", "e", "_", "v", "e", "r", "s", "i", "o", "n">>),
    S(<<"e", "v", "i", "d", "e", "n", "c", "e", "_", "t", "y", "p", "e">>), S(<<"p", "r", "e", "m", "i", "u", "m", "_", "a", "v", "a", "i", "l", "a", "b", "l", "e">>), S(<<"m", "e", "s", "s", "a", "g", "e">>) }

Keys(dct) == { dct.items[i].k : i \in DOMAIN dct.items }

\* C20: the keys of the public summary of encrypt_evidence are among the
\* allow-list, whatever other fields the evidence has
C20_SummaryKeysInAllowList ==
  (ret.op = "encrypt_evidence" /\ ret.result.raised = "")
    => Keys(ret.result.public_summary) \subseteq SummaryAllowList

\* evidence with fields outside the allow-list was encrypted
W20_ExtraFieldsSummarised ==
  /\ ret.op = "encrypt_evidence"
  /\ ret.result.raised = ""
  /\ HasKey(ret.full_evidence, S(<<"r", "e", "a", "s", "o", "n", "i", "n", "g">>))
  /\ HasKey(ret.full_evidence, S(<<"c", "o", "n", "f", "i", "d", "e", "n", "c", "e">>))
  /\ ret.result.public_summary.t = "dict"

\* the fields of the evidence that the public summary may depend on
VersionOf(evidence) ==
  IF HasKey(evidence, S(<<"t", "e", "e", "_", "a", "t", "t", "e", "s", "t", "a", "t", "i", "o", "n">>))
       /\ GetItem(evidence, S(<<"t", "e", "e", "_", "a", "t", "t", "e", "s", "t", "a", "t", "i", "o", "n">>)).t = "dict"
  THEN GetOr(GetItem(evidence, S(<<"t", "e", "e", "_", "a", "t", "t", "e", "s", "t", "a", "t", "i", "o", "n">>)), S(<<"v", "e", "r", "s", "i", "o", "n">>), JNull)
  ELSE JNull

PublicFields(evidence) ==
  <<GetOr(evidence, S(<<"o", "u", "t", "c", "o", "m", "e">>), JNull), GetOr(evidence, S(<<"r", "e", "s", "o", "l", "u", "t", "i", "o", "n", "_", "d", "a", "t", "e">>), JNull),
    VersionOf(evidence)>>

\* C21: two evidence objects that agree on outcome, resolution_date and
\* tee_attestation.version get identical public summaries for one market id,
\* whatever their reasoning, sources and other fields hold
C21_SummaryIgnoresOtherFields ==
  (ret.op = "encrypt_both" /\ ret.result.raised = "" /\ ret.other_result.raised = ""
     /\ PublicFields(ret.full_evidence) = PublicFields(ret.other_evidence))
    => ret.result.public_summary = ret.other_result.public_summary

\* two evidence objects that differ in reasoning and sources only were sealed
W21_DifferInReasoningAndSources ==
  /\ ret.op = "encrypt_both"
  /\ ret.result.raised = "" /\ ret.other_result.raised = ""
  /\ PublicFields(ret.full_evidence) = PublicFields(ret.other_evidence)
  /\ HasKey(ret.full_evidence, S(<<"r", "e", "a", "s", "o", "n", "i", "n", "g">>)) /\ HasKey(ret.full_evidence, S(<<"s", "o", "u", "r", "c", "e", "s">>))
  /\ ~HasKey(ret.other_evidence, S(<<"r", "e", "a", "s", "o", "n", "i", "n", "g">>)) /\ ~HasKey(ret.other_evidence, S(<<"s", "o", "u", "r", "c", "e", "s">>))

\* the bytes decrypt_evidence recovers from a blob before it decodes them
RecoveredBytes(self, encrypted_blob, market_id) ==
  XorWithKey(SubSeq(encrypted_blob, Len(SEAL_HEADER) + 1, Len(encrypted_blob)),
             SealKey(self, market_id))

\* C22: in what encrypt_evidence returns, content_hash is the SHA-256 of the
\* plaintext bytes that decryption of the blob recovers, seal_policy_id is the
\* configured policy id, and encrypted_size_bytes is original_size_bytes + 12
C22_MetadataMatchesBlob ==
  (ret.op = "encrypt_evidence" /\ ret.result.raised = "")
    => LET meta == ret.result.encryption_metadata
           blob == ret.result.encrypted_blob
       IN /\ GetItem(meta, S(<<"c", "o", "n", "t", "e", "n", "t", "_", "h", "a", "s", "h">>))
               = JStr(hexdigest(RecoveredBytes(ret.self, blob, ret.market_id)))
          /\ ret.result.seal_policy_id = ret.self.config.seal_policy_id
          /\ GetItem(meta, S(<<"s", "e", "a", "l", "_", "p", "o", "l", "i", "c", "y", "_", "i", "d">>)) = JStr(ret.self.config.seal_policy_id)
          /\ GetItem(meta, S(<<"e", "n", "c", "r", "y", "p", "t", "e", "d", "_", "s", "i", "z", "e", "_", "b", "y", "t", "e", "s">>)) = JInt(Len(blob))
          /\ GetItem(meta, S(<<"e", "n", "c", "r", "y", "p", "t", "e", "d", "_", "s", "i", "z", "e", "_", "b", "y", "t", "e", "s">>)).n
               = GetItem(meta, S(<<"o", "r", "i", "g", "i", "n", "a", "l", "_", "s", "i", "z", "e", "_", "b", "y", "t", "e", "s">>)).n + 12

\* evidence with reasoning and an attestation was sealed
W22_EvidenceSealed ==
  /\ ret.op = "encrypt_evidence"
  /\ ret.result.raised = ""
  /\ HasKey(ret.full_evidence, S(<<"r", "e", "a", "s", "o", "n", "i", "n", "g">>))
  /\ HasKey(ret.full_evidence, S(<<"t", "e", "e", "_", "a", "t", "t", "e", "s", "t", "a", "t", "i", "o", "n">>))
  /\ Len(ret.result.encrypted_blob) > 12

-----------------------------------------------------------------------------
(* walrus_uploader.py: verify_upload (specification SpecVerify)            *)

\* verify_upload: cli is what subprocess.run of `walrus read` meets.  Every
\* exception (the binary missing, a non-zero exit, output that is not JSON)
\* is caught and answered with False.
verify_upload(self, blob_id, expected_hash, cli) ==
  IF ~cli.launched \/ cli.returncode # 0 THEN "False"
  ELSE LET blob_data == json_loads(cli.stdout)
       IN IF blob_data = JRaise THEN "False"
          ELSE IF hash_bundle(self, blob_data) = expected_hash THEN "True"
          ELSE "False"

\* bundles a blob of the store may hold
StoredBundles ==
  { JDict(<< <<S(<<"v", "e", "r", "s", "i", "o", "n">>), JStr(S(<<"1", ".", "0">>))>>, <<S(<<"t", "i", "m", "e", "s", "t", "a", "m", "p">>), JInt(t)>>,
             <<S(<<"o", "u", "t", "p", "u", "t">>), o>> >>) :
      t \in {0, 1735689600},
      o \in { JDict(<<>>), JDict(<< <<S(<<"r", "a", "t", "i", "o", "n", "a", "l", "e">>), JStr(S(<<"o", "k">>))>> >>),
              JList(<<JInt(1), JFloat(85)>>) } }

\* what `walrus read` meets: the binary missing, a non-zero exit, the stored
\* file of a bundle, and output that is not JSON
ReadOutcomes ==
  { [launched |-> FALSE, returncode |-> 0, stdout |-> <<>>],
    [launched |-> TRUE, returncode |-> 1, stdout |-> <<>>],
    [launched |-> TRUE, returncode |-> 0, stdout |-> S(<<"E", "r", "r", "o", "r", ":", " ", "b", "l", "o", "b", " ", "n", "o", "t", " ", "f", "o", "u", "n", "d">>)],
    [launched |-> TRUE, returncode |-> 0, stdout |-> <<>>] }
  \cup { [launched |-> TRUE, returncode |-> 0, stdout |-> UploadFile(b)] : b \in StoredBundles }

ExpectedHashes ==
  { hash_bundle(WalrusUploader(None), b) : b \in StoredBundles } \cup { S(<<"0", "x", "a", "b", "c">>) }

VerifyUpload ==
  /\ Idle
  /\ \E blob_id \in { S(<<"b", "l", "o", "b", "A">>), S(<<"b", "l", "o", "b", "B">>) }, expected_hash \in ExpectedHashes,
        cli \in ReadOutcomes :
       ret' = [op |-> "verify_upload", self |-> WalrusUploader(None),
               blob_id |-> blob_id, expected_hash |-> expected_hash, cli |-> cli,
               result |-> verify_upload(WalrusUploader(None), blob_id, expected_hash, cli)]
  /\ UNCHANGED <<gens, pair, run, walrus, tempfiles>>

NextVerify == VerifyUpload \/ Return

SpecVerify == Init /\ [][NextVerify]_vars

-----------------------------------------------------------------------------
(* Claims about verify_upload (specification SpecVerify)                   *)

\* the blob was read from the store and is a bundle
BlobRead(cli) == cli.launched /\ cli.returncode = 0 /\ json_loads(cli.stdout) # JRaise

\* the outcome of verify_upload when the blob cannot be read
ReadFailureOutcome(self, blob_id, expected_hash) ==
  verify_upload(self, blob_id, expected_hash,
                [launched |-> TRUE, returncode |-> 1, stdout |-> <<>>])

\* success is reported only for a blob that was read and hashes to expected_hash
SuccessOnlyOnEqualHash ==
  ret.op = "verify_upload" =>
    (ret.result = "True"
       <=> (BlobRead(ret.cli)
              /\ hash_bundle(ret.self, json_loads(ret.cli.stdout)) = ret.expected_hash))

\* C23: verify_upload reports success only when the hash of the fetched blob
\* equals expected_hash, and an unequal hash gives an outcome that differs
\* from the outcome of a failure to read the blob
C23_MismatchToldApartFromReadFailure ==
  /\ SuccessOnlyOnEqualHash
  /\ (ret.op = "verify_upload" /\ BlobRead(ret.cli)
        /\ hash_bundle(ret.self, json_loads(ret.cli.stdout)) # ret.expected_hash)
       => ret.result # ReadFailureOutcome(ret.self, ret.blob_id, ret.expected_hash)

-----------------------------------------------------------------------------
(* Concurrent create_tee_proof calls on one shared generator               *)
(* (specification SpecShared): gens holds the shared instance, run the     *)
(* callers, each with its position in create_tee_proof and its locals.     *)
(* The statements before create_report_digest read no attribute of self    *)
(* and are one step.                                                       *)

Callers == {"c1", "c2"}

SharedGen == "g1"

Caller(c) == run.calls[c]

\* each caller brings an inference result of its own
CallerInference(c) ==
  IF c = "c1" THEN CHOOSE inf \in Inferences : HasKey(inf[1], S(<<"n">>))
  ELSE CHOOSE inf \in Inferences : ~HasKey(inf[1], S(<<"n">>))

\* the random mrsigner of the simulated attestation, the same in every call
AttestationSigner == CHOOSE r \in RandomBytes : TRUE

SetCaller(c, pc, locals) ==
  run' = [run EXCEPT !.calls[c] = ([pc |-> pc] @@ locals) @@ @]

ShareGenerator ==
  /\ run.pc = "idle"
  /\ gens = <<>>
  /\ Idle
  /\ \E pk \in PrivateKeys :
       LET built == DefaultGenerator(pk)
       IN /\ gens' = (SharedGen :> built)
          /\ run' = [pc |-> "shared", built |-> built,
                     calls |-> [c \in Callers |-> [pc |-> "idle"]]]
  /\ UNCHANGED <<ret, pair, walrus, tempfiles>>

\* timestamp, nonce, h_in, h_out
ProofBegin(c) ==
  /\ run.pc = "shared"
  /\ Caller(c).pc = "idle"
  /\ \E time \in Timestamps, r \in RandomBytes :
       LET inf == CallerInference(c)
       IN
       SetCaller(c, "digest",
                 [blob_id |-> S(<<"b", "l", "o", "b", "A">>), blob_hash |-> S(<<"0", "x", "c">>),
                  timestamp |-> time,
                  nonce |-> generate_nonce(gens[SharedGen], r),
                  h_in |-> hash_input(gens[SharedGen], inf[1]),
                  h_out |-> hash_output(gens[SharedGen], inf[2])])
  /\ UNCHANGED <<gens, ret, pair, walrus, tempfiles>>

ProofDigest(c) ==
  /\ run.pc = "shared"
  /\ Caller(c).pc = "digest"
  /\ LET l == Caller(c)
     IN SetCaller(c, "sign",
                  [report_digest |->
                     create_report_digest(gens[SharedGen], l.h_in, l.h_out, l.blob_id,
                                          l.blob_hash, l.timestamp, l.nonce)])
  /\ UNCHANGED <<gens, ret, pair, walrus, tempfiles>>

ProofSign(c) ==
  /\ run.pc = "shared"
  /\ Caller(c).pc = "sign"
  /\ \E k \in SignSecrets :
       /\ SetCaller(c, "attest",
                    [signature |-> sign_report(gens[SharedGen], Caller(c).report_digest, k)])
       /\ gens' = [gens EXCEPT ![SharedGen] =
                     SelfAfterSignReport(@, Caller(c).report_digest, k)]
  /\ UNCHANGED <<ret, pair, walrus, tempfiles>>

ProofAttest(c) ==
  /\ run.pc = "shared"
  /\ Caller(c).pc = "attest"
  /\ \E now \in Timestamps :
       /\ now >= Caller(c).timestamp
       /\ SetCaller(c, "assemble",
                    [attestation |->
                       generate_attestation(gens[SharedGen], Caller(c).report_digest,
                                            AttestationSigner, now)])
  /\ UNCHANGED <<gens, ret, pair, walrus, tempfiles>>

ProofAssemble(c) ==
  /\ run.pc = "shared"
  /\ Caller(c).pc = "assemble"
  /\ LET l == Caller(c)
         self == gens[SharedGen]
     IN SetCaller(c, "done",
                  [tee_proof |->
                     [enclave_id |-> self.enclave_id,
                      enclave_pubkey |-> self.enclave_pubkey,
                      mrenclave |-> self.mrenclave,
                      sig |-> l.signature,
                      attestation |-> l.attestation,
                      timestamp |-> l.timestamp,
                      nonce |-> l.nonce,
                      h_in |-> l.h_in,
                      h_out |-> l.h_out,
                      blob_id |-> l.blob_id,
                      blob_hash |-> l.blob_hash]])
  /\ UNCHANGED <<gens, ret, pair, walrus, tempfiles>>

\* the caller verifies the proof it was returned on the shared generator
ProofVerify(c) ==
  /\ run.pc = "shared"
  /\ Caller(c).pc = "done"
  /\ LET p == Caller(c).tee_proof
         self == gens[SharedGen]
     IN SetCaller(c, "verified",
                  [verified |-> verify_signature(self, RecomputedDigest(self, p), p.sig)])
  /\ UNCHANGED <<gens, ret, pair, walrus, tempfiles>>

NextShared ==
  \/ ShareGenerator
  \/ \E c \in Callers :
       \/ ProofBegin(c)
       \/ ProofDigest(c)
       \/ ProofSign(c)
       \/ ProofAttest(c)
       \/ ProofAssemble(c)
       \/ ProofVerify(c)

SpecShared == Init /\ [][NextShared]_vars

-----------------------------------------------------------------------------
(* Claims about concurrent calls (specification SpecShared)                *)

\* C24: no step of a create_tee_proof or verify_signature call changes the
\* key pair, enclave_id, enclave_pubkey or mrenclave of the shared generator,
\* and under every interleaving the signature of every returned proof
\* verifies for the digest recomputed from the proof's own fields
C24_SharedGeneratorUnchangedProofsVerify ==
  run.pc = "shared" =>
    /\ gens[SharedGen] = run.built
    /\ \A c \in Callers :
         /\ Caller(c).pc \in {"done", "verified"} =>
              verify_signature(run.built,
                               RecomputedDigest(run.built, Caller(c).tee_proof),
                               Caller(c).tee_proof.sig)
         /\ Caller(c).pc = "verified" => Caller(c).verified

\* a caller was returned its proof and verified it while the call of the
\* other caller, which has signed, is still running
W24_ProofReturnedDuringOtherCall ==
  /\ run.pc = "shared"
  /\ Caller("c1").pc = "verified"
  /\ Caller("c1").verified
  /\ Caller("c2").pc = "assemble"

-----------------------------------------------------------------------------
(* Claims about the text formats (specification Spec)                      *)

\* a lowercase hexadecimal digit; the digits of a digest the model keeps
\* symbolic are digits hexdigest() writes
IsLowerHexDigit(c) ==
  \/ \E i \in 1..16 : c = HexDigits[i]
  \/ c[1] \in {SymHi, SymLo}

\* 0x followed by exactly 64 lowercase hexadecimal digits
IsHex256(text) ==
  /\ Len(text) = 66
  /\ SubSeq(text, 1, 2) = S(<<"0", "x">>)
  /\ \A i \in 3..66 : IsLowerHexDigit(text[i])

\* C25: nonce, h_in, h_out and attestation of every proof of create_tee_proof
\* and every result of hash_bundle, hash_input and hash_output are 0x and 64
\* lowercase hexadecimal digits, and the proof's timestamp is an integer
C25_HashTextsAre0xAnd64Hex ==
  /\ ret.op \in {"hash_bundle", "hash_input", "hash_output"} => IsHex256(ret.result)
  /\ ret.op = "create_tee_proof" =>
       /\ IsHex256(ret.result.nonce)
       /\ IsHex256(ret.result.h_in)
       /\ IsHex256(ret.result.h_out)
       /\ IsHex256(ret.result.attestation)
       /\ ret.result.timestamp \in Int

\* a proof was returned whose nonce ends in a digit other than 0 and whose
\* clock reading is not the earliest
W25_ProofWithDrawnNonce ==
  /\ ret.op = "create_tee_proof"
  /\ ret.result.nonce[66] # <<48>>
  /\ ret.result.timestamp > BaseTime

-----------------------------------------------------------------------------
(* create_prompt_hash as a function of the prompts (specification          *)
(* SpecPrompt): pair holds two calls, each with its prompts and its result *)

SystemPrompts == { SYSTEM_PROMPT, S(<<"T", "e", "s", "t", " ", "s", "y", "s", "t", "e", "m", " ", "p", "r", "o", "m", "p", "t">>), S(<<"a", "|", "|", "|", "b">>), S(<<"a">>) }

UserPrompts == { S(<<"T", "e", "s", "t", " ", "u", "s", "e", "r", " ", "p", "r", "o", "m", "p", "t">>), S(<<"c">>), S(<<"b", "|", "|", "|", "c">>), <<>> }

CreatePromptHash ==
  /\ Len(pair) < 2
  /\ \E system_prompt \in SystemPrompts, user_prompt \in UserPrompts :
       pair' = Append(pair,
                 [system_prompt |-> system_prompt, user_prompt |-> user_prompt,
                  result |-> create_prompt_hash(GPT5Inference(S(<<"t", "e", "s", "t", "_", "k", "e", "y">>)),
                                                system_prompt, user_prompt)])
  /\ UNCHANGED <<gens, ret, run, walrus, tempfiles>>

NextPrompt == CreatePromptHash

SpecPrompt == Init /\ [][NextPrompt]_vars

-----------------------------------------------------------------------------
(* Claims about create_prompt_hash (specification SpecPrompt)              *)

\* equal prompt pairs give equal results
PromptHashDeterministic ==
  \A i, j \in DOMAIN pair :
    (pair[i].system_prompt = pair[j].system_prompt
       /\ pair[i].user_prompt = pair[j].user_prompt)
      => pair[i].result = pair[j].result

\* C26: create_prompt_hash gives equal results for equal prompt pairs, and
\* its result starts with 0x and is 66 characters long
C26_PromptHashIs0xAnd64Hex ==
  /\ PromptHashDeterministic
  /\ \A i \in DOMAIN pair :
       /\ Len(pair[i].result) = 66
       /\ SubSeq(pair[i].result, 1, 2) = S(<<"0", "x">>)

-----------------------------------------------------------------------------
(* Claims about the totality of validate_output (specification             *)
(* SpecValidate)                                                           *)

\* the resolution of the output is not a mapping, or its confidence is not
\* a number
ResolutionMalformed(output) ==
  /\ HasKey(output, S(<<"r", "e", "s", "o", "l", "u", "t", "i", "o", "n">>))
  /\ LET resolution == GetItem(output, S(<<"r", "e", "s", "o", "l", "u", "t", "i", "o", "n">>))
     IN \/ resolution.t # "dict"
        \/ /\ HasKey(resolution, S(<<"c", "o", "n", "f", "i", "d", "e", "n", "c", "e">>))
           /\ GetItem(resolution, S(<<"c", "o", "n", "f", "i", "d", "e", "n", "c", "e">>)).t \in {"str", "null"}

\* C27: validate_output returns True or False for every output and never
\* raises, and it returns False for an output whose resolution is not a
\* mapping or whose confidence is a string or null
C27_ValidateOutputTotal ==
  ret.op = "validate_output" =>
    /\ ret.result \in {"True", "False"}
    /\ ResolutionMalformed(ret.output) => ret.result = "False"

-----------------------------------------------------------------------------
(* Claims about what a report binds (specification SpecReport)             *)

\* every entry of dict a is an entry of dict b
EntriesKept(a, b) ==
  \A i \in DOMAIN a.items : HasKey(b, a.items[i].k) /\ GetItem(b, a.items[i].k) = a.items[i].v

\* C28: in every returned report the evidence bundle holds the input, the
\* output and the metadata of the one inference result (version 1.0, the
\* timestamp of the metadata, 0 when the metadata has none), the proof's
\* blob_hash is hash_bundle of that bundle, its h_in and h_out are the hashes
\* of that input and output, and resolution, sources and rationale of the
\* report are those of that output
C28_ReportBindsOneInference ==
  run.pc = "returned" =>
    LET input == GetItem(run.inference_result, S(<<"i", "n", "p", "u", "t">>))
        output == GetItem(run.inference_result, S(<<"o", "u", "t", "p", "u", "t">>))
        metadata == GetItem(run.inference_result, S(<<"m", "e", "t", "a", "d", "a", "t", "a">>))
        bundle == run.evidence_bundle
        proof == GetItem(run.final_report, S(<<"t", "e", "e", "_", "p", "r", "o", "o", "f">>))
    IN /\ GetItem(bundle, S(<<"v", "e", "r", "s", "i", "o", "n">>)) = JStr(S(<<"1", ".", "0">>))
       /\ GetItem(bundle, S(<<"i", "n", "p", "u", "t">>)) = input
       /\ GetItem(bundle, S(<<"o", "u", "t", "p", "u", "t">>)) = output
       /\ EntriesKept(metadata, GetItem(bundle, S(<<"m", "e", "t", "a", "d", "a", "t", "a">>)))
       /\ GetItem(bundle, S(<<"t", "i", "m", "e", "s", "t", "a", "m", "p">>)) = GetItem(GetItem(bundle, S(<<"m", "e", "t", "a", "d", "a", "t", "a">>)), S(<<"t", "i", "m", "e", "s", "t", "a", "m", "p">>))
       /\ GetItem(bundle, S(<<"t", "i", "m", "e", "s", "t", "a", "m", "p">>)) = JInt(run.timestamp)
       /\ GetItem(create_evidence_bundle(run.self.walrus, input, output, metadata),
                  S(<<"t", "i", "m", "e", "s", "t", "a", "m", "p">>)) = JInt(0)
       /\ GetItem(proof, S(<<"b", "l", "o", "b", "_", "h", "a", "s", "h">>)) = JStr(hash_bundle(run.self.walrus, bundle))
       /\ GetItem(proof, S(<<"h", "_", "i", "n">>)) = JStr(hash_input(run.self.tee_signer, input))
       /\ GetItem(proof, S(<<"h", "_", "o", "u", "t">>)) = JStr(hash_output(run.self.tee_signer, output))
       /\ GetItem(run.final_report, S(<<"r", "e", "s", "o", "l", "u", "t", "i", "o", "n">>)) = GetItem(output, S(<<"r", "e", "s", "o", "l", "u", "t", "i", "o", "n">>))
       /\ GetItem(run.final_report, S(<<"s", "o", "u", "r", "c", "e", "s">>)) = GetItem(output, S(<<"s", "o", "u", "r", "c", "e", "s">>))
       /\ GetItem(run.final_report, S(<<"r", "a", "t", "i", "o", "n", "a", "l", "e">>)) = GetItem(output, S(<<"r", "a", "t", "i", "o", "n", "a", "l", "e">>))

\* a report was returned after a real upload of its bundle
W28_ReportAfterUpload ==
  /\ run.pc = "returned"
  /\ run.self.enable_walrus_upload
  /\ Len(walrus) = 1
  /\ GetItem(run.evidence_bundle, S(<<"t", "i", "m", "e", "s", "t", "a", "m", "p">>)).n > 0

\* SIMULATED_ followed by 32 hexadecimal digits
IsSimulatedBlobId(text) ==
  /\ Len(text) = 42
  /\ SubSeq(text, 1, 10) = S(<<"S", "I", "M", "U", "L", "A", "T", "E", "D", "_">>)
  /\ \A i \in 11..42 : IsLowerHexDigit(text[i])

\* the proof carries the blob id and hash of the upload stage
ProofCarriesBlob ==
  "tee_proof" \in DOMAIN run =>
    /\ run.tee_proof.blob_id = run.blob_id
    /\ run.tee_proof.blob_hash = run.blob_hash

\* C29: with enable_walrus_upload False, create_resolution_report never
\* invokes upload_to_walrus, the proof's blob_id is SIMULATED_ and 32 hex
\* digits derived from the bundle and blob_hash is hash_bundle of the bundle;
\* with True, blob_id and blob_hash are the pair upload_to_walrus returned
C29_UploadOnlyWhenEnabled ==
  /\ ("self" \in DOMAIN run /\ ~run.self.enable_walrus_upload) =>
       /\ walrus = <<>>
       /\ "cli" \notin DOMAIN run
       /\ "blob_id" \in DOMAIN run =>
            /\ IsSimulatedBlobId(run.blob_id)
            /\ run.blob_id = SimulatedBlobId(run.evidence_bundle)
            /\ run.blob_hash = hash_bundle(run.self.walrus, run.evidence_bundle)
            /\ ProofCarriesBlob
  /\ ("self" \in DOMAIN run /\ run.self.enable_walrus_upload /\ "blob_id" \in DOMAIN run) =>
       LET up == upload_to_walrus(run.self.walrus, run.evidence_bundle, run.cli)
       IN /\ up.raised = ""
          /\ run.blob_id = up.blob_id
          /\ run.blob_hash = up.blob_hash
          /\ ProofCarriesBlob

\* a report was returned by a reporter that simulates the upload
W29_ReportWithSimulatedBlob ==
  /\ run.pc = "returned"
  /\ ~run.self.enable_walrus_upload
  /\ IsSimulatedBlobId(run.tee_proof.blob_id)

-----------------------------------------------------------------------------
(* upload_to_walrus, statement by statement (specification SpecUpload).    *)
(* run is the call: pc is "store" once the temporary file is written,      *)
(* "finally" when the try block is left, "returned" / "raised" at the end. *)
(* tempfiles holds the temporary files that exist, walrus the files the    *)
(* CLI stored.                                                             *)

TempNames == { S(<<"/", "t", "m", "p", "/", "t", "m", "p", "a", ".", "j", "s", "o", "n">>), S(<<"/", "t", "m", "p", "/", "t", "m", "p", "b", ".", "j", "s", "o", "n">>) }

\* with tempfile.NamedTemporaryFile(mode='w', suffix='.json', delete=False)
UploadBegin ==
  /\ run.pc = "idle"
  /\ \E path \in { None, S(<<"/", "u", "s", "r", "/", "b", "i", "n", "/", "w", "a", "l", "r", "u", "s">>) }, bundle \in StoredBundles,
        temp_file \in TempNames :
       /\ \A f \in tempfiles : f.name # temp_file
       /\ tempfiles' = tempfiles \cup { [name |-> temp_file, content |-> UploadFile(bundle)] }
       /\ run' = [pc |-> "store", self |-> WalrusUploader(path), bundle |-> bundle,
                  temp_file |-> temp_file]
  /\ UNCHANGED <<gens, ret, pair, walrus>>

\* the try block: subprocess.run, the search for the blob id, hash_bundle
UploadStore ==
  /\ run.pc = "store"
  /\ \E cli \in CliOutcomes :
       /\ walrus' = IF cli.launched /\ cli.returncode = 0
                    THEN Append(walrus, (CHOOSE f \in tempfiles : f.name = run.temp_file).content)
                    ELSE walrus
       /\ run' = [pc |-> "finally", cli |-> cli,
                  up |-> upload_to_walrus(run.self, run.bundle, cli)] @@ run
  /\ UNCHANGED <<gens, ret, pair, tempfiles>>

\* finally: if os.path.exists(temp_file): os.remove(temp_file)
UploadFinally ==
  /\ run.pc = "finally"
  /\ tempfiles' = { f \in tempfiles : f.name # run.temp_file }
  /\ run' = [run EXCEPT !.pc = IF run.up.raised = "" THEN "returned" ELSE "raised"]
  /\ UNCHANGED <<gens, ret, pair, walrus>>

NextUpload == UploadBegin \/ UploadStore \/ UploadFinally

SpecUpload == Init /\ [][NextUpload]_vars

-----------------------------------------------------------------------------
(* Claims about upload_to_walrus (specification SpecUpload)                *)

UploadEnded == run.pc \in {"returned", "raised"} /\ "temp_file" \in DOMAIN run

\* the temporary file of the call is gone when the call has ended
TempFileRemoved ==
  UploadEnded => \A f \in tempfiles : f.name # run.temp_file

\* C30: when upload_to_walrus has ended its temporary file is removed; it
\* returns the pair only when the CLI succeeded and its output held a blob
\* id that is not empty, and otherwise it raises RuntimeError
C30_TempFileRemovedRuntimeErrorOtherwise ==
  /\ TempFileRemoved
  /\ UploadEnded =>
       LET succeeded == /\ run.cli.launched
                        /\ run.cli.returncode = 0
                        /\ ExtractBlobId(run.cli.stdout) # <<>>
       IN IF succeeded
          THEN /\ run.pc = "returned"
               /\ run.up.blob_id = ExtractBlobId(run.cli.stdout)
               /\ run.up.blob_hash = hash_bundle(run.self, run.bundle)
          ELSE /\ run.pc = "raised"
               /\ run.up.raised = "RuntimeError"

\* the outcomes of the calls whose CLI process was started
OutcomesWhenCliStarted ==
  (UploadEnded /\ run.cli.launched) =>
    IF run.cli.returncode = 0 /\ ExtractBlobId(run.cli.stdout) # <<>>
    THEN run.pc = "returned" /\ run.up.raised = ""
    ELSE run.pc = "raised" /\ run.up.raised = "RuntimeError"












=============================================================================
